---- MODULE Spec2Model ----
(***************************************************************************)
(* A model of the 2D math core of tinyengine (package internal/math):      *)
(* Vector2/Vector3, Matrix3x3, Transform and Camera2D.                     *)
(*                                                                         *)
(* Numbers.  The program computes in float64.  A number of the model is an *)
(* exact decimal rational [n, d, e] standing for (n/d) * 10^e, kept in a   *)
(* canonical form so that equal values are equal records.  The rounding of *)
(* the mantissa is not modelled (the properties below that the program's   *)
(* tests state "within tolerance" are stated here as exact equalities of   *)
(* the unrounded results); the float64 range is modelled at its lower end: *)
(* a nonzero result below the smallest subnormal is flushed to zero.       *)
(*                                                                         *)
(* Angles.  Rotation is a float64 in radians.  An angle of the model is    *)
(* [deg, k] standing for deg*(pi/180) + k*theta, theta = atan2(4, 3), so   *)
(* that math.Cos and math.Sin are exact rationals on every angle whose deg *)
(* is a multiple of 90.                                                    *)
(***************************************************************************)
EXTENDS Integers, Sequences, FiniteSets, TLC

VARIABLES matrix, transform, camera, op, args, ret

vars == <<matrix, transform, camera, op, args, ret>>

(***************************************************************************)
(* float64 numbers as canonical decimal rationals                          *)
(***************************************************************************)
RECURSIVE GCD(_, _)
GCD(a, b) == IF b = 0 THEN a ELSE GCD(b, a % b)

IAbs(i) == IF i < 0 THEN -i ELSE i

RECURSIVE Pow10(_)
Pow10(k) == IF k = 0 THEN 1 ELSE 10 * Pow10(k - 1)

Zero == [n |-> 0, d |-> 1, e |-> 0]

\* denominators are kept coprime to 10: 1/2 = 5 * 10^-1, 1/5 = 2 * 10^-1
RECURSIVE StripDen(_, _, _)
StripDen(n, d, e) ==
    IF d % 2 = 0 THEN StripDen(n * 5, d \div 2, e - 1)
    ELSE IF d % 5 = 0 THEN StripDen(n * 2, d \div 5, e - 1)
    ELSE [n |-> n, d |-> d, e |-> e]

\* numerators carry no factor 10: it goes to the exponent
RECURSIVE StripNum(_)
StripNum(x) ==
    IF x.n % 10 = 0 THEN StripNum([n |-> x.n \div 10, d |-> x.d, e |-> x.e + 1])
    ELSE x

\* the canonical form of (n/d) * 10^e, d # 0
Canon(n, d, e) ==
    IF n = 0 THEN Zero
    ELSE LET s == IF d < 0 THEN -1 ELSE 1
             g == GCD(IAbs(n), IAbs(d))
         IN  StripNum(StripDen((s * n) \div g, (s * d) \div g, e))

\* x * 10^k < y for integers x >= 1, y, k >= 0, without computing 10^k
RECURSIVE ScaledLt(_, _, _)
ScaledLt(x, k, y) ==
    IF k = 0 THEN x < y
    ELSE IF y <= 1 THEN FALSE
    ELSE ScaledLt(x, k - 1, (y + 9) \div 10)

\* a < b for a, b > 0
LtPos(a, b) ==
    (a.e >= b.e) = ScaledLt(IF a.e >= b.e THEN a.n * b.d ELSE b.n * a.d,
                            IAbs(a.e - b.e),
                            IF a.e >= b.e THEN b.n * a.d ELSE a.n * b.d + 1)

FNeg(a) == [a EXCEPT !.n = -a.n]

FAbs(a) == [a EXCEPT !.n = IAbs(a.n)]

\* a < b
FLt(a, b) ==
    IF a.n <= 0 /\ b.n > 0 THEN TRUE
    ELSE IF a.n < 0 /\ b.n = 0 THEN TRUE
    ELSE IF a.n >= 0 /\ b.n <= 0 THEN FALSE
    ELSE IF a.n > 0 THEN LtPos(a, b)
    ELSE LtPos(FAbs(b), FAbs(a))

FGt(a, b) == FLt(b, a)

FLeq(a, b) == ~FLt(b, a)

\* float64 has no nonzero value below the smallest subnormal (4.94e-324):
\* a result under 1e-324 in magnitude is zero
Underflow == [n |-> 1, d |-> 1, e |-> -324]

Float(x) == IF x.n # 0 /\ LtPos(FAbs(x), Underflow) THEN Zero ELSE x

Num(i) == Canon(i, 1, 0)

Rat(n, d) == Canon(n, d, 0)

Dec(n, e) == Canon(n, 1, e)

\* float64 keeps 53 bits: a term under 1e-17 of the other (less than half a
\* unit in its last place) is lost in their sum
Absorbs(a, b) == LtPos([n |-> IAbs(b.n), d |-> b.d, e |-> b.e + 17], FAbs(a))

\* the sum of two nonzero numbers, lost[1] telling that a absorbs b and
\* lost[2] that b absorbs a
FAddNonZero(a, b, e, lost) ==
    IF lost[1] THEN a
    ELSE IF lost[2] THEN b
    ELSE Float(Canon(a.n * Pow10(a.e - e) * b.d + b.n * Pow10(b.e - e) * a.d,
                     a.d * b.d, e))

FAdd(a, b) ==
    IF a.n = 0 THEN b
    ELSE IF b.n = 0 THEN a
    ELSE FAddNonZero(a, b, IF a.e < b.e THEN a.e ELSE b.e,
                     [i \in 1..2 |-> Absorbs(IF i = 1 THEN a ELSE b,
                                             IF i = 1 THEN b ELSE a)])

FSub(a, b) == FAdd(a, FNeg(b))

FMul(a, b) ==
    LET g1 == GCD(IAbs(a.n), b.d)
        g2 == GCD(IAbs(b.n), a.d)
    IN  IF a.n = 0 \/ b.n = 0 THEN Zero
        ELSE Float(Canon((a.n \div g1) * (b.n \div g2),
                         (a.d \div g2) * (b.d \div g1), a.e + b.e))

\* a / b, b # 0
FDiv(a, b) ==
    FMul(a, IF b.n < 0 THEN [n |-> -b.d, d |-> -b.n, e |-> -b.e]
            ELSE [n |-> b.d, d |-> b.n, e |-> -b.e])

One == Num(1)

\* |value| < Epsilon, the test of Inverse and IsEqual
Epsilon == Dec(1, -10)

(***************************************************************************)
(* angles: math.Cos, math.Sin and the degree conversion                    *)
(***************************************************************************)
Angle(deg, k) == [deg |-> deg, k |-> k]

AngleAdd(a, b) == [deg |-> a.deg + b.deg, k |-> a.k + b.k]

AngleNeg(a) == [deg |-> -a.deg, k |-> -a.k]

\* <<cos, sin>> of k * theta, where cos theta = 3/5 and sin theta = 4/5
RECURSIVE CisTheta(_)
CisTheta(k) ==
    IF k = 0 THEN <<One, Zero>>
    ELSE IF k < 0 THEN LET z == CisTheta(-k) IN <<z[1], FNeg(z[2])>>
    ELSE LET z == CisTheta(k - 1)
         IN  <<FSub(FMul(z[1], Rat(3, 5)), FMul(z[2], Rat(4, 5))),
               FAdd(FMul(z[2], Rat(3, 5)), FMul(z[1], Rat(4, 5)))>>

\* <<cos, sin>> of q quarter turns
CisQuarter(q) ==
    CASE q % 4 = 0 -> <<One, Zero>>
      [] q % 4 = 1 -> <<Zero, One>>
      [] q % 4 = 2 -> <<FNeg(One), Zero>>
      [] q % 4 = 3 -> <<Zero, FNeg(One)>>

\* <<cos a, sin a>>; only the angles with a rational cosine and sine
Cis(a) ==
    LET q == CisQuarter(a.deg \div 90)
        z == CisTheta(a.k)
    IN  IF a.deg % 90 # 0 THEN CHOOSE x \in {} : TRUE
        ELSE <<FSub(FMul(q[1], z[1]), FMul(q[2], z[2])),
               FAdd(FMul(q[1], z[2]), FMul(q[2], z[1]))>>

Cos(a) == Cis(a)[1]

Sin(a) == Cis(a)[2]

\* pi / 180
DegreesToRadians == Angle(1, 0)

DegreesToRad(degrees) ==
    [deg |-> degrees * DegreesToRadians.deg, k |-> degrees * DegreesToRadians.k]

(***************************************************************************)
(* Vector2, Vector3                                                        *)
(***************************************************************************)
Vector2(x, y) == [X |-> x, Y |-> y]

Vector3(x, y, z) == [X |-> x, Y |-> y, Z |-> z]

Vector2Add(v, other) == Vector2(FAdd(v.X, other.X), FAdd(v.Y, other.Y))

Vector2Sub(v, other) == Vector2(FSub(v.X, other.X), FSub(v.Y, other.Y))

Vector2Scale(v, scalar) == Vector2(FMul(v.X, scalar), FMul(v.Y, scalar))

\* the integer r in lo..hi with r*r <= n < (r+1)*(r+1)
RECURSIVE SqrtSearch(_, _, _)
SqrtSearch(n, lo, hi) ==
    IF lo >= hi THEN lo
    ELSE LET mid == (lo + hi + 1) \div 2
         IN  IF mid * mid <= n THEN SqrtSearch(n, mid, hi)
             ELSE SqrtSearch(n, lo, mid - 1)

ISqrt(n) == SqrtSearch(n, 0, IF n < 46340 THEN n ELSE 46340)

\* x >= 0 written with an even exponent
EvenExp(x) == IF x.e % 2 = 0 THEN x ELSE [n |-> x.n * 10, d |-> x.d, e |-> x.e - 1]

\* x is the square of a number of the model
HasSqrt(x) ==
    LET y == EvenExp(x)
    IN  y.n >= 0 /\ ISqrt(y.n) * ISqrt(y.n) = y.n /\ ISqrt(y.d) * ISqrt(y.d) = y.d

\* math.Sqrt, on the squares only: the other roots are irrational
Sqrt(x) ==
    LET y == EvenExp(x)
    IN  IF HasSqrt(x) THEN Canon(ISqrt(y.n), ISqrt(y.d), y.e \div 2)
        ELSE CHOOSE r \in {} : TRUE

ZeroThreshold == Dec(1, -8)

IsZero(value) == FLt(FAbs(value), ZeroThreshold)

LengthSquared(v) == FAdd(FMul(v.X, v.X), FMul(v.Y, v.Y))

Length(v) == Sqrt(FAdd(FMul(v.X, v.X), FMul(v.Y, v.Y)))

\* Normalize with the test length == 0
NormalizeExactZero(v) ==
    LET length == Length(v)
    IN  IF length = Zero THEN Vector2(Zero, Zero)
        ELSE Vector2(FDiv(v.X, length), FDiv(v.Y, length))

Normalize(v) ==
    LET length == Length(v)
    IN  IF IsZero(length) THEN Vector2(Zero, Zero)
        ELSE Vector2(FDiv(v.X, length), FDiv(v.Y, length))

ToVector3(v) == Vector3(v.X, v.Y, One)

\* ToVector2 without the perspective divide
ToVector2NoDivide(v) == Vector2(v.X, v.Y)

ToVector2(v) ==
    IF v.Z = Zero THEN Vector2(v.X, v.Y)
    ELSE Vector2(FDiv(v.X, v.Z), FDiv(v.Y, v.Z))

Vector3LengthSquared(v) == FAdd(FAdd(FMul(v.X, v.X), FMul(v.Y, v.Y)), FMul(v.Z, v.Z))

Vector3Length(v) == Sqrt(FAdd(FAdd(FMul(v.X, v.X), FMul(v.Y, v.Y)), FMul(v.Z, v.Z)))

Vector3Normalize(v) ==
    LET length == Vector3Length(v)
    IN  IF IsZero(length) THEN Vector3(Zero, Zero, Zero)
        ELSE Vector3(FDiv(v.X, length), FDiv(v.Y, length), FDiv(v.Z, length))

(***************************************************************************)
(* Matrix3x3: m[i][j] of the program is m[i+1][j+1] here                   *)
(***************************************************************************)
NewIdentityMatrix3x3 ==
    <<<<One, Zero, Zero>>,
      <<Zero, One, Zero>>,
      <<Zero, Zero, One>>>>

NewTranslationMatrix3x3(dx, dy) ==
    <<<<One, Zero, dx>>,
      <<Zero, One, dy>>,
      <<Zero, Zero, One>>>>

NewScaleMatrix3x3(sx, sy) ==
    <<<<sx, Zero, Zero>>,
      <<Zero, sy, Zero>>,
      <<Zero, Zero, One>>>>

NewRotationMatrix3x3(angle) ==
    LET cos == Cos(angle)
        sin == Sin(angle)
    IN  <<<<cos, FNeg(sin), Zero>>,
          <<sin, cos, Zero>>,
          <<Zero, Zero, One>>>>

\* MultiplyCell with = for +=: the last k overwrites the sum
MultiplyCellAssign(m, other, i, j) == FMul(m[i][3], other[3][j])

\* result[i][j] += m[i][k] * other[k][j] for k = 0, 1, 2, from result[i][j] = 0
MultiplyCell(m, other, i, j) ==
    FAdd(FAdd(FAdd(Zero, FMul(m[i][1], other[1][j])),
              FMul(m[i][2], other[2][j])),
         FMul(m[i][3], other[3][j]))

MultiplyRow(m, other, i) ==
    <<MultiplyCell(m, other, i, 1), MultiplyCell(m, other, i, 2),
      MultiplyCell(m, other, i, 3)>>

\* Multiply with its operands exchanged
MultiplySwapped(m, other) ==
    <<MultiplyRow(other, m, 1), MultiplyRow(other, m, 2), MultiplyRow(other, m, 3)>>

Multiply(m, other) ==
    <<MultiplyRow(m, other, 1), MultiplyRow(m, other, 2), MultiplyRow(m, other, 3)>>

MultiplyVector(m, v) ==
    Vector3(
      FAdd(FAdd(FMul(m[1][1], v.X), FMul(m[1][2], v.Y)), FMul(m[1][3], v.Z)),
      FAdd(FAdd(FMul(m[2][1], v.X), FMul(m[2][2], v.Y)), FMul(m[2][3], v.Z)),
      FAdd(FAdd(FMul(m[3][1], v.X), FMul(m[3][2], v.Y)), FMul(m[3][3], v.Z)))

MatrixTransformPoint(m, point) ==
    LET v3 == ToVector3(point)
        result == MultiplyVector(m, v3)
    IN  ToVector2(result)

\* MatrixTransformVector lifting the vector as a point, Z = 1
MatrixTransformVectorAsPoint(m, vector) ==
    LET v3 == Vector3(vector.X, vector.Y, One)
        result == MultiplyVector(m, v3)
    IN  Vector2(result.X, result.Y)

MatrixTransformVector(m, vector) ==
    LET v3 == Vector3(vector.X, vector.Y, Zero)
        result == MultiplyVector(m, v3)
    IN  Vector2(result.X, result.Y)

\* Determinant as the product of the diagonal
DeterminantOfDiagonal(m) == FMul(m[1][1], FMul(m[2][2], m[3][3]))

Determinant(m) ==
    FAdd(FSub(FMul(m[1][1], FSub(FMul(m[2][2], m[3][3]), FMul(m[2][3], m[3][2]))),
              FMul(m[1][2], FSub(FMul(m[2][1], m[3][3]), FMul(m[2][3], m[3][1])))),
         FMul(m[1][3], FSub(FMul(m[2][1], m[3][2]), FMul(m[2][2], m[3][1]))))

\* Matrix3x3{}, the zero value returned beside an error
ZeroMatrix3x3 ==
    <<<<Zero, Zero, Zero>>, <<Zero, Zero, Zero>>, <<Zero, Zero, Zero>>>>

\* Cofactor with the sign of the second product slipped
CofactorSum(a, b, c_, d, invDet) == FMul(FAdd(FMul(a, b), FMul(c_, d)), invDet)

\* (a*b - c*d) * invDet
Cofactor(a, b, c_, d, invDet) == FMul(FSub(FMul(a, b), FMul(c_, d)), invDet)

InverseOf(m, invDet) ==
    <<<<Cofactor(m[2][2], m[3][3], m[2][3], m[3][2], invDet),
        Cofactor(m[1][3], m[3][2], m[1][2], m[3][3], invDet),
        Cofactor(m[1][2], m[2][3], m[1][3], m[2][2], invDet)>>,
      <<Cofactor(m[2][3], m[3][1], m[2][1], m[3][3], invDet),
        Cofactor(m[1][1], m[3][3], m[1][3], m[3][1], invDet),
        Cofactor(m[1][3], m[2][1], m[1][1], m[2][3], invDet)>>,
      <<Cofactor(m[2][1], m[3][2], m[2][2], m[3][1], invDet),
        Cofactor(m[1][2], m[3][1], m[1][1], m[3][2], invDet),
        Cofactor(m[1][1], m[2][2], m[1][2], m[2][1], invDet)>>>>

\* Inverse with the test det == 0 for math.Abs(det) < Epsilon
InverseExactZero(m) ==
    LET det == Determinant(m)
    IN  IF det = Zero
        THEN [val |-> ZeroMatrix3x3, err |-> "cannot invert singular matrix"]
        ELSE [val |-> InverseOf(m, FDiv(One, det)), err |-> "nil"]

\* the pair (matrix, error) is [val, err]; err = "nil" when there is none
Inverse(m) ==
    LET det == Determinant(m)
    IN  IF FLt(FAbs(det), Epsilon)
        THEN [val |-> ZeroMatrix3x3, err |-> "cannot invert singular matrix"]
        ELSE LET invDet == FDiv(One, det)
             IN  [val |-> InverseOf(m, invDet), err |-> "nil"]

(***************************************************************************)
(* Transform                                                               *)
(***************************************************************************)
NewTransform ==
    [Position |-> Vector2(Zero, Zero), Rotation |-> Angle(0, 0),
     Scale |-> Vector2(One, One)]

NewTransformWithValues(position, rotation, scale) ==
    [Position |-> position, Rotation |-> rotation, Scale |-> scale]

\* ToMatrix composing in the order of the camera's view matrix
ToMatrixScaleFirst(t) ==
    LET translation == NewTranslationMatrix3x3(t.Position.X, t.Position.Y)
        rotation == NewRotationMatrix3x3(t.Rotation)
        scale == NewScaleMatrix3x3(t.Scale.X, t.Scale.Y)
    IN  Multiply(Multiply(scale, rotation), translation)

ToMatrix(t) ==
    LET translation == NewTranslationMatrix3x3(t.Position.X, t.Position.Y)
        rotation == NewRotationMatrix3x3(t.Rotation)
        scale == NewScaleMatrix3x3(t.Scale.X, t.Scale.Y)
    IN  Multiply(Multiply(translation, rotation), scale)

\* ToInverseMatrix dropping the error of Inverse
ToInverseMatrixNoError(t) == [val |-> Inverse(ToMatrix(t)).val, err |-> "nil"]

ToInverseMatrix(t) == Inverse(ToMatrix(t))

TransformPoint(t, point) == MatrixTransformPoint(ToMatrix(t), point)

TransformVector(t, vector) == MatrixTransformVector(ToMatrix(t), vector)

\* Vector2{}, the zero value returned beside an error
ZeroVector2 == Vector2(Zero, Zero)

\* InverseTransformPoint applying the inverse as to a direction
InverseTransformPointAsVector(t, point) ==
    LET inverse == ToInverseMatrix(t)
    IN  IF inverse.err # "nil" THEN [val |-> ZeroVector2, err |-> inverse.err]
        ELSE [val |-> MatrixTransformVector(inverse.val, point), err |-> "nil"]

InverseTransformPoint(t, point) ==
    LET inverse == ToInverseMatrix(t)
    IN  IF inverse.err # "nil" THEN [val |-> ZeroVector2, err |-> inverse.err]
        ELSE [val |-> MatrixTransformPoint(inverse.val, point), err |-> "nil"]

InverseTransformVector(t, vector) ==
    LET inverse == ToInverseMatrix(t)
    IN  IF inverse.err # "nil" THEN [val |-> ZeroVector2, err |-> inverse.err]
        ELSE [val |-> MatrixTransformVector(inverse.val, vector), err |-> "nil"]

TransformSetPosition(t, position) == [t EXCEPT !.Position = position]

TransformSetRotation(t, rotation) == [t EXCEPT !.Rotation = rotation]

TransformSetRotationDegrees(t, degrees) == [t EXCEPT !.Rotation = DegreesToRad(degrees)]

SetScale(t, scale) == [t EXCEPT !.Scale = scale]

SetUniformScale(t, scale) == [t EXCEPT !.Scale = Vector2(scale, scale)]

\* Translate with the offset scaled by Scale, as a point of the transform
TranslateLocal(t, offset) ==
    [t EXCEPT !.Position = Vector2Add(t.Position,
                                      Vector2(FMul(t.Scale.X, offset.X),
                                              FMul(t.Scale.Y, offset.Y)))]

Translate(t, offset) == [t EXCEPT !.Position = Vector2Add(t.Position, offset)]

TransformRotate(t, angle) == [t EXCEPT !.Rotation = AngleAdd(t.Rotation, angle)]

TransformRotateDegrees(t, degrees) ==
    [t EXCEPT !.Rotation = AngleAdd(t.Rotation, DegreesToRad(degrees))]

ScaleBy(t, scale) ==
    [t EXCEPT !.Scale = Vector2(FMul(t.Scale.X, scale.X), FMul(t.Scale.Y, scale.Y))]

ScaleByUniform(t, scale) ==
    [t EXCEPT !.Scale = Vector2(FMul(t.Scale.X, scale), FMul(t.Scale.Y, scale))]

\* Forward drawn to the length of the X scale
ForwardScaled(t) ==
    Vector2(FMul(t.Scale.X, Cos(t.Rotation)), FMul(t.Scale.X, Sin(t.Rotation)))

Forward(t) == Vector2(Cos(t.Rotation), Sin(t.Rotation))

Right(t) == Vector2(FNeg(Sin(t.Rotation)), Cos(t.Rotation))

\* Up with the Y axis upwards: Right again
UpIsRight(t) == Vector2(FNeg(Sin(t.Rotation)), Cos(t.Rotation))

Up(t) == Vector2(Sin(t.Rotation), FNeg(Cos(t.Rotation)))

\* Reset leaving Scale as it is
ResetKeepsScale(t) ==
    [Position |-> Vector2(Zero, Zero), Rotation |-> Angle(0, 0), Scale |-> t.Scale]

Reset(t) ==
    [Position |-> Vector2(Zero, Zero), Rotation |-> Angle(0, 0),
     Scale |-> Vector2(One, One)]

\* Combine with the other transform's Position added, not transformed
CombineAddsPosition(t, other) ==
    [Position |-> Vector2Add(t.Position, other.Position),
     Rotation |-> AngleAdd(t.Rotation, other.Rotation),
     Scale |-> Vector2(FMul(t.Scale.X, other.Scale.X), FMul(t.Scale.Y, other.Scale.Y))]

Combine(t, other) ==
    [Position |-> TransformPoint(t, other.Position),
     Rotation |-> AngleAdd(t.Rotation, other.Rotation),
     Scale |-> Vector2(FMul(t.Scale.X, other.Scale.X), FMul(t.Scale.Y, other.Scale.Y))]

(***************************************************************************)
(* Camera2D                                                                *)
(***************************************************************************)
NewCamera2D ==
    [Position |-> Vector2(Zero, Zero), Zoom |-> One, Rotation |-> Angle(0, 0)]

NewCamera2DWithValues(position, zoom, rotation) ==
    [Position |-> position, Zoom |-> zoom, Rotation |-> rotation]

\* GetViewMatrix with the factors in the order of an object's matrix
GetViewMatrixObjectOrder(c) ==
    LET scale == NewScaleMatrix3x3(c.Zoom, c.Zoom)
        rotation == NewRotationMatrix3x3(AngleNeg(c.Rotation))
        translation == NewTranslationMatrix3x3(FNeg(c.Position.X), FNeg(c.Position.Y))
    IN  Multiply(Multiply(translation, rotation), scale)

GetViewMatrix(c) ==
    LET scale == NewScaleMatrix3x3(c.Zoom, c.Zoom)
        rotation == NewRotationMatrix3x3(AngleNeg(c.Rotation))
        translation == NewTranslationMatrix3x3(FNeg(c.Position.X), FNeg(c.Position.Y))
    IN  Multiply(Multiply(scale, rotation), translation)

\* GetProjectionMatrix without the flip of the Y axis
GetProjectionMatrixNoFlip(c, screenWidth, screenHeight) ==
    LET halfWidth == FDiv(screenWidth, Num(2))
        halfHeight == FDiv(screenHeight, Num(2))
    IN  <<<<halfWidth, Zero, halfWidth>>,
          <<Zero, halfHeight, halfHeight>>,
          <<Zero, Zero, One>>>>

GetProjectionMatrix(c, screenWidth, screenHeight) ==
    LET halfWidth == FDiv(screenWidth, Num(2))
        halfHeight == FDiv(screenHeight, Num(2))
    IN  <<<<halfWidth, Zero, halfWidth>>,
          <<Zero, FNeg(halfHeight), halfHeight>>,
          <<Zero, Zero, One>>>>

\* GetViewProjectionMatrix with the view applied after the projection
GetViewProjectionMatrixViewLast(c, screenWidth, screenHeight) ==
    LET view == GetViewMatrix(c)
        projection == GetProjectionMatrix(c, screenWidth, screenHeight)
    IN  Multiply(view, projection)

GetViewProjectionMatrix(c, screenWidth, screenHeight) ==
    LET view == GetViewMatrix(c)
        projection == GetProjectionMatrix(c, screenWidth, screenHeight)
    IN  Multiply(projection, view)

\* ScreenToWorld without the flip of the Y axis
ScreenToWorldNoFlip(c, screenPos, screenWidth, screenHeight) ==
    LET halfWidth == FDiv(screenWidth, Num(2))
        halfHeight == FDiv(screenHeight, Num(2))
        normalized == Vector2(FDiv(FSub(screenPos.X, halfWidth), halfWidth),
                              FDiv(FSub(screenPos.Y, halfHeight), halfHeight))
        viewMatrix == GetViewMatrix(c)
        inverseView == Inverse(viewMatrix)
    IN  IF inverseView.err # "nil" THEN Vector2(Zero, Zero)
        ELSE MatrixTransformPoint(inverseView.val, normalized)

\* ScreenToWorld falling back to the normalized position
ScreenToWorldFallsBackToInput(c, screenPos, screenWidth, screenHeight) ==
    LET halfWidth == FDiv(screenWidth, Num(2))
        halfHeight == FDiv(screenHeight, Num(2))
        normalized == Vector2(FDiv(FSub(screenPos.X, halfWidth), halfWidth),
                              FDiv(FSub(halfHeight, screenPos.Y), halfHeight))
        viewMatrix == GetViewMatrix(c)
        inverseView == Inverse(viewMatrix)
    IN  IF inverseView.err # "nil" THEN normalized
        ELSE MatrixTransformPoint(inverseView.val, normalized)

ScreenToWorld(c, screenPos, screenWidth, screenHeight) ==
    LET halfWidth == FDiv(screenWidth, Num(2))
        halfHeight == FDiv(screenHeight, Num(2))
        normalized == Vector2(FDiv(FSub(screenPos.X, halfWidth), halfWidth),
                              FDiv(FSub(halfHeight, screenPos.Y), halfHeight))
        viewMatrix == GetViewMatrix(c)
        inverseView == Inverse(viewMatrix)
    IN  IF inverseView.err # "nil" THEN Vector2(Zero, Zero)
        ELSE MatrixTransformPoint(inverseView.val, normalized)

\* WorldToScreen without the move of the origin to the centre of the screen
WorldToScreenFromCorner(c, worldPos, screenWidth, screenHeight) ==
    LET viewMatrix == GetViewMatrix(c)
        viewPos == MatrixTransformPoint(viewMatrix, worldPos)
        halfWidth == FDiv(screenWidth, Num(2))
        halfHeight == FDiv(screenHeight, Num(2))
    IN  Vector2(FMul(viewPos.X, halfWidth), FNeg(FMul(viewPos.Y, halfHeight)))

WorldToScreen(c, worldPos, screenWidth, screenHeight) ==
    LET viewMatrix == GetViewMatrix(c)
        viewPos == MatrixTransformPoint(viewMatrix, worldPos)
        halfWidth == FDiv(screenWidth, Num(2))
        halfHeight == FDiv(screenHeight, Num(2))
    IN  Vector2(FAdd(FMul(viewPos.X, halfWidth), halfWidth),
                FSub(halfHeight, FMul(viewPos.Y, halfHeight)))

SetPosition(c, position) == [c EXCEPT !.Position = position]

\* SetZoom with the test zoom >= 0
SetZoomNonNegative(c, zoom) == IF FLeq(Zero, zoom) THEN [c EXCEPT !.Zoom = zoom] ELSE c

SetZoom(c, zoom) == IF FGt(zoom, Zero) THEN [c EXCEPT !.Zoom = zoom] ELSE c

SetRotation(c, rotation) == [c EXCEPT !.Rotation = rotation]

SetRotationDegrees(c, degrees) == [c EXCEPT !.Rotation = DegreesToRad(degrees)]

Move(c, offset) == [c EXCEPT !.Position = Vector2Add(c.Position, offset)]

ZoomBy(c, factor) ==
    IF FGt(factor, Zero) THEN [c EXCEPT !.Zoom = FMul(c.Zoom, factor)] ELSE c

Rotate(c, angle) == [c EXCEPT !.Rotation = AngleAdd(c.Rotation, angle)]

RotateDegrees(c, degrees) ==
    [c EXCEPT !.Rotation = AngleAdd(c.Rotation, DegreesToRad(degrees))]

\* the loop of GetBounds over the corners that are left
RECURSIVE BoundsOver(_, _)
BoundsOver(corners, bounds) ==
    IF corners = <<>> THEN bounds
    ELSE LET corner == Head(corners)
         IN  BoundsOver(Tail(corners),
                        [minX |-> IF FLt(corner.X, bounds.minX) THEN corner.X ELSE bounds.minX,
                         maxX |-> IF FGt(corner.X, bounds.maxX) THEN corner.X ELSE bounds.maxX,
                         minY |-> IF FLt(corner.Y, bounds.minY) THEN corner.Y ELSE bounds.minY,
                         maxY |-> IF FGt(corner.Y, bounds.maxY) THEN corner.Y ELSE bounds.maxY])

\* GetBounds taking the top left corner for min and the bottom right for max
GetBoundsDiagonal(c, screenWidth, screenHeight) ==
    <<ScreenToWorld(c, Vector2(Zero, Zero), screenWidth, screenHeight),
      ScreenToWorld(c, Vector2(screenWidth, screenHeight), screenWidth, screenHeight)>>

\* GetBounds with the corners in pixels from the centre, not normalized
GetBoundsInPixels(c, screenWidth, screenHeight) ==
    LET halfWidth == FDiv(screenWidth, Num(2))
        halfHeight == FDiv(screenHeight, Num(2))
        topLeft == ScreenToWorld(c, Vector2(Zero, Zero), Num(2), Num(2))
        bottomRight == ScreenToWorld(c, Vector2(Num(2), Num(2)), Num(2), Num(2))
        bounds == BoundsOver(<<bottomRight>>,
                             [minX |-> topLeft.X, maxX |-> topLeft.X,
                              minY |-> topLeft.Y, maxY |-> topLeft.Y])
    IN  <<Vector2(FMul(bounds.minX, halfWidth), FMul(bounds.minY, halfHeight)),
          Vector2(FMul(bounds.maxX, halfWidth), FMul(bounds.maxY, halfHeight))>>

\* min and max over the corners, the first of them the start of the loop
BoundsOf(corners) ==
    LET bounds == BoundsOver(Tail(corners),
                             [minX |-> corners[1].X, maxX |-> corners[1].X,
                              minY |-> corners[1].Y, maxY |-> corners[1].Y])
    IN  <<Vector2(bounds.minX, bounds.minY), Vector2(bounds.maxX, bounds.maxY)>>

\* <<min, max>>; the corners are topLeft, topRight, bottomLeft, bottomRight
GetBounds(c, screenWidth, screenHeight) ==
    BoundsOf([i \in 1..4 |->
                ScreenToWorld(c, Vector2(IF i \in {2, 4} THEN screenWidth ELSE Zero,
                                         IF i \in {3, 4} THEN screenHeight ELSE Zero),
                              screenWidth, screenHeight)])

LookAt(c, target) == [c EXCEPT !.Position = target]

\* FollowTarget always moving the whole step, past a target that is nearer
FollowTargetOvershoots(c, target, followSpeed, deltaTime) ==
    IF FLeq(followSpeed, Zero) \/ FLeq(deltaTime, Zero) THEN c
    ELSE LET direction == Vector2Sub(target, c.Position)
             distance == Length(direction)
             maxDistance == FMul(followSpeed, deltaTime)
         IN  IF FGt(distance, ZeroThreshold)
             THEN [c EXCEPT !.Position =
                     Vector2Add(c.Position,
                                Vector2Scale(Normalize(direction), maxDistance))]
             ELSE c

\* FollowTarget without the test of followSpeed and deltaTime
FollowTargetUnchecked(c, target, followSpeed, deltaTime) ==
    LET direction == Vector2Sub(target, c.Position)
        distance == Length(direction)
        maxDistance == FMul(followSpeed, deltaTime)
    IN  IF FGt(distance, ZeroThreshold)
        THEN [c EXCEPT !.Position =
                Vector2Add(c.Position,
                           IF FGt(distance, maxDistance)
                           THEN Vector2Scale(Normalize(direction), maxDistance)
                           ELSE direction)]
        ELSE c

\* FollowTarget going half the way to a target that is within reach
FollowTargetHalfway(c, target, followSpeed, deltaTime) ==
    IF FLeq(followSpeed, Zero) \/ FLeq(deltaTime, Zero) THEN c
    ELSE LET direction == Vector2Sub(target, c.Position)
             distance == Length(direction)
             maxDistance == FMul(followSpeed, deltaTime)
         IN  IF FGt(distance, ZeroThreshold)
             THEN [c EXCEPT !.Position =
                     Vector2Add(c.Position,
                                IF FGt(distance, maxDistance)
                                THEN Vector2Scale(Normalize(direction), maxDistance)
                                ELSE Vector2Scale(direction, Rat(1, 2)))]
             ELSE c

FollowTarget(c, target, followSpeed, deltaTime) ==
    IF FLeq(followSpeed, Zero) \/ FLeq(deltaTime, Zero) THEN c
    ELSE LET direction == Vector2Sub(target, c.Position)
             distance == Length(direction)
             maxDistance == FMul(followSpeed, deltaTime)
         IN  IF FGt(distance, ZeroThreshold)
             THEN [c EXCEPT !.Position =
                     Vector2Add(c.Position,
                                IF FGt(distance, maxDistance)
                                THEN Vector2Scale(Normalize(direction), maxDistance)
                                ELSE direction)]
             ELSE c

(***************************************************************************)
(* inputs                                                                  *)
(***************************************************************************)
\* coordinates of points, positions and translations: -MaxCoord..MaxCoord
MaxCoord == 1

\* rotations: up to MaxQuarter quarter turns, and a turn by theta either way
MaxQuarter == 1

\* entries of the matrices that are no affine map: 0..MaxEntry
MaxEntry == 1

Coords == {Num(i) : i \in -MaxCoord..MaxCoord}

PointInputs == {Vector2(x, y) : x \in Coords, y \in Coords}

\* directions (Z = 0), points (Z = 1) and a Z that is neither
Vector3Inputs == {Vector3(p.X, p.Y, z) : p \in PointInputs, z \in {Num(-1), Zero, One}}

AngleInputs == {Angle(90 * q, k) : q \in 0..MaxQuarter, k \in {-1, 0, 1}}

\* a collapsed axis, a mirrored axis and an enlargement
ScaleInputs == {Zero, Rat(-1, 2), Num(2)}

\* matrix_test.go: TestMatrix3x3_Inverse_Singular, TestMatrix3x3_Inverse,
\* TestMatrix3x3_Multiply, TestMatrix3x3_MultiplyVector
SingularMatrix ==
    <<<<Num(1), Num(2), Num(3)>>, <<Num(4), Num(5), Num(6)>>, <<Num(7), Num(8), Num(9)>>>>

InvertibleMatrix ==
    <<<<Num(2), Num(0), Num(1)>>, <<Num(1), Num(1), Num(0)>>, <<Num(0), Num(1), Num(1)>>>>

DescendingMatrix ==
    <<<<Num(9), Num(8), Num(7)>>, <<Num(6), Num(5), Num(4)>>, <<Num(3), Num(2), Num(1)>>>>

AffineMatrix ==
    <<<<Num(2), Num(0), Num(5)>>, <<Num(0), Num(3), Num(2)>>, <<Num(0), Num(0), Num(1)>>>>

TestMatrices == {SingularMatrix, InvertibleMatrix, DescendingMatrix, AffineMatrix}

\* matrices whose third row is not (0, 0, 1), of the shape of InvertibleMatrix
GeneralMatrices ==
    {<<<<Num(a), Num(b), One>>, <<One, Num(e), Zero>>, <<Zero, One, Num(w)>>>> :
        a \in 0..MaxEntry, b \in 0..MaxEntry, e \in 0..MaxEntry, w \in 0..MaxEntry}

FactoryMatrices ==
    {NewIdentityMatrix3x3}
    \cup {NewTranslationMatrix3x3(dx, dy) : dx \in Coords, dy \in Coords}
    \cup {NewScaleMatrix3x3(sx, sy) : sx \in ScaleInputs, sy \in ScaleInputs}
    \cup {NewRotationMatrix3x3(a) : a \in AngleInputs}

\* scalings by the least scale ClampScale lets through (MinScale = 1e-6) and
\* by 1e-5: determinants 1e-12, 2e-6 and 1e-10, which is Epsilon
NearSingularMatrices ==
    {NewScaleMatrix3x3(Dec(1, -6), Dec(1, -6)), NewScaleMatrix3x3(Dec(1, -6), Num(2)),
     NewScaleMatrix3x3(Dec(1, -5), Dec(1, -5))}

MatrixInputs ==
    FactoryMatrices \cup TestMatrices \cup GeneralMatrices \cup NearSingularMatrices

\* the second operand of a product when neither operand is the identity
OperandInputs ==
    {NewIdentityMatrix3x3, NewTranslationMatrix3x3(Num(1), Num(-1)),
     NewScaleMatrix3x3(Num(2), Rat(-1, 2)), NewRotationMatrix3x3(Angle(90, 1)),
     SingularMatrix, InvertibleMatrix}

\* positions of transforms and cameras: a diagonal of PointInputs
PositionInputs == {p \in PointInputs : p.X = FNeg(p.Y)}

\* mirrored and uneven, the least of ClampScale on both axes and on one, and
\* each axis collapsed
ScalePairInputs ==
    {Vector2(Num(2), Rat(-1, 2)),
     Vector2(Dec(1, -6), Dec(1, -6)), Vector2(Dec(1, -6), Num(2)),
     Vector2(Zero, Num(2)), Vector2(Num(2), Zero)}

\* transform_test.go: TestTransform_ToMatrix, TestTransform_TransformVector,
\* TestTransform_TransformPoint
TestTransforms ==
    {NewTransformWithValues(Vector2(Num(10), Num(5)), Angle(90, 0), Vector2(Num(2), Num(2))),
     NewTransformWithValues(Vector2(Num(100), Num(100)), Angle(90, 0), Vector2(Num(2), Num(2))),
     NewTransformWithValues(Vector2(Num(5), Num(3)), Angle(0, 0), Vector2(Num(2), Num(2)))}

TransformInputs ==
    {NewTransform} \cup TestTransforms
    \cup {NewTransformWithValues(position, rotation, scale) :
            position \in PositionInputs, rotation \in AngleInputs,
            scale \in ScalePairInputs}

(***************************************************************************)
(* SpecMatrix: the operations of Matrix3x3 on a matrix drawn from          *)
(* MatrixInputs.  op, args and ret are the last call, its arguments and    *)
(* what it returned.                                                       *)
(***************************************************************************)
InitMatrix ==
    /\ matrix \in MatrixInputs
    /\ transform = NewTransform
    /\ camera = NewCamera2D
    /\ op = "init"
    /\ args = <<>>
    /\ ret = <<>>

\* a query leaves its receiver as it is, so one call on each drawn input
\* reaches every result
Call(name, arguments, result) ==
    /\ op = "init"
    /\ op' = name
    /\ args' = arguments
    /\ ret' = result

\* a product with a near-singular scaling is followed for the identity only:
\* sums of entries near 1 and near 1e-6 need more digits than TLC's integers
MultiplyOp ==
    /\ \E other \in MatrixInputs :
          /\ matrix \in OperandInputs \/ other \in OperandInputs
          /\ matrix \in NearSingularMatrices => other = NewIdentityMatrix3x3
          /\ other \in NearSingularMatrices => matrix = NewIdentityMatrix3x3
          /\ Call("Multiply", <<other>>, Multiply(matrix, other))
    /\ UNCHANGED <<matrix, transform, camera>>

MultiplyVectorOp ==
    /\ \E v \in Vector3Inputs : Call("MultiplyVector", <<v>>, MultiplyVector(matrix, v))
    /\ UNCHANGED <<matrix, transform, camera>>

MatrixTransformPointOp ==
    /\ \E point \in PointInputs :
          Call("Matrix.TransformPoint", <<point>>, MatrixTransformPoint(matrix, point))
    /\ UNCHANGED <<matrix, transform, camera>>

MatrixTransformVectorOp ==
    /\ \E vector \in PointInputs :
          Call("Matrix.TransformVector", <<vector>>, MatrixTransformVector(matrix, vector))
    /\ UNCHANGED <<matrix, transform, camera>>

DeterminantOp ==
    /\ Call("Determinant", <<>>, Determinant(matrix))
    /\ UNCHANGED <<matrix, transform, camera>>

InverseOp ==
    /\ Call("Inverse", <<>>, Inverse(matrix))
    /\ UNCHANGED <<matrix, transform, camera>>

NextMatrix ==
    \/ MultiplyOp
    \/ MultiplyVectorOp
    \/ MatrixTransformPointOp
    \/ MatrixTransformVectorOp
    \/ DeterminantOp
    \/ InverseOp

SpecMatrix == InitMatrix /\ [][NextMatrix]_vars

(***************************************************************************)
(* Matrix3x3: properties                                                   *)
(***************************************************************************)
\* the determinant by the rule of Sarrus
Sarrus(m) ==
    FSub(FAdd(FAdd(FMul(FMul(m[1][1], m[2][2]), m[3][3]),
                   FMul(FMul(m[1][2], m[2][3]), m[3][1])),
              FMul(FMul(m[1][3], m[2][1]), m[3][2])),
         FAdd(FAdd(FMul(FMul(m[1][3], m[2][2]), m[3][1]),
                   FMul(FMul(m[1][2], m[2][1]), m[3][3])),
              FMul(FMul(m[1][1], m[2][3]), m[3][2])))

\* C2: Inverse returns an error exactly when |determinant| < 1e-10, and a
\* matrix with no error otherwise; {{1,2,3},{4,5,6},{7,8,9}} has determinant
\* 0 and Inverse fails on it with the singular-matrix error.
C2_InverseErrorIffSingular ==
    /\ op = "Inverse" =>
          /\ ret.err \in {"nil", "cannot invert singular matrix"}
          /\ (ret.err # "nil") <=> FLt(FAbs(Sarrus(matrix)), Epsilon)
    /\ (op = "Determinant" /\ matrix = SingularMatrix) => ret = Zero
    /\ (op = "Inverse" /\ matrix = SingularMatrix) =>
          ret.err = "cannot invert singular matrix"

\* Inverse has refused a matrix whose determinant, 1e-12, is small and not
\* zero
C2_Witness ==
    /\ op = "Inverse"
    /\ matrix = NewScaleMatrix3x3(Dec(1, -6), Dec(1, -6))
    /\ ret.err = "cannot invert singular matrix"

TwoSidedInverse(m, inv) ==
    /\ Multiply(m, inv) = NewIdentityMatrix3x3
    /\ Multiply(inv, m) = NewIdentityMatrix3x3

\* C3 as stated: for every invertible matrix (determinant not zero) Inverse
\* succeeds and returns a two-sided inverse.
C3_Original ==
    (op = "Inverse" /\ Sarrus(matrix) # Zero) =>
        /\ ret.err = "nil"
        /\ TwoSidedInverse(matrix, ret.val)

\* C3, amended: for every matrix with |determinant| >= 1e-10 Inverse succeeds
\* and M.Multiply(inverse) = inverse.Multiply(M) = identity.
C3_InverseIsTwoSided ==
    (op = "Inverse" /\ ~FLt(FAbs(Sarrus(matrix)), Epsilon)) =>
        /\ ret.err = "nil"
        /\ TwoSidedInverse(matrix, ret.val)

\* Inverse has inverted the matrix of TestMatrix3x3_Inverse, no affine map
C3_Witness ==
    /\ op = "Inverse"
    /\ matrix = InvertibleMatrix
    /\ ret.err = "nil"
    /\ ret.val # matrix

\* C9: the identity matrix is a two-sided unit of Multiply.
C9_IdentityIsUnit ==
    op = "Multiply" =>
        /\ matrix = NewIdentityMatrix3x3 => ret = args[1]
        /\ args[1] = NewIdentityMatrix3x3 => ret = matrix

\* the identity has been multiplied from the left with a matrix of nine
\* different entries
C9_Witness ==
    /\ op = "Multiply"
    /\ matrix = NewIdentityMatrix3x3
    /\ args[1] = SingularMatrix
    /\ ret = SingularMatrix

\* A.Multiply(B) applied to a homogeneous vector is B applied, then A
ComposesOnVectors(a, b, ab) ==
    \A v \in Vector3Inputs :
        MultiplyVector(ab, v) = MultiplyVector(a, MultiplyVector(b, v))

\* the perspective divide of ToVector2 is taken (Z # 0) at both steps
Divides(a, b, point) ==
    /\ MultiplyVector(b, ToVector3(point)).Z # Zero
    /\ MultiplyVector(a, ToVector3(MatrixTransformPoint(b, point))).Z # Zero

\* C10 as stated: for all A, B, every vector v and every point p,
\* A.Multiply(B).MultiplyVector(v) = A.MultiplyVector(B.MultiplyVector(v)) and
\* A.Multiply(B).TransformPoint(p) = A.TransformPoint(B.TransformPoint(p)).
C10_Original ==
    op = "Multiply" =>
        /\ ComposesOnVectors(matrix, args[1], ret)
        /\ \A point \in PointInputs :
              MatrixTransformPoint(ret, point) =
                 MatrixTransformPoint(matrix, MatrixTransformPoint(args[1], point))

\* C10, amended: the equation on vectors holds for all A, B and v; the one on
\* points holds for every p at which neither B.MultiplyVector(p.ToVector3())
\* nor A.MultiplyVector(B.TransformPoint(p).ToVector3()) has Z = 0, so for all
\* affine A and B.
C10_MultiplyComposes ==
    op = "Multiply" =>
        /\ ComposesOnVectors(matrix, args[1], ret)
        /\ \A point \in PointInputs :
              Divides(matrix, args[1], point) =>
                 MatrixTransformPoint(ret, point) =
                    MatrixTransformPoint(matrix, MatrixTransformPoint(args[1], point))

\* a product of two matrices that do not commute, the first no affine map
C10_Witness ==
    /\ op = "Multiply"
    /\ matrix = InvertibleMatrix
    /\ args[1] = NewTranslationMatrix3x3(Num(1), Num(-1))
    /\ ret # Multiply(args[1], matrix)
    /\ \E point \in PointInputs : Divides(matrix, args[1], point)

(***************************************************************************)
(* SpecTransform: the queries of Transform on a transform drawn from       *)
(* TransformInputs, matrix being its ToMatrix(); and Matrix3x3's           *)
(* TransformVector on that matrix or on one that is no transform's.        *)
(***************************************************************************)
InitTransform ==
    /\ \/ /\ transform \in TransformInputs
          /\ matrix = ToMatrix(transform)
       \/ /\ transform = NewTransform
          /\ matrix \in TestMatrices \cup GeneralMatrices
    /\ camera = NewCamera2D
    /\ op = "init"
    /\ args = <<>>
    /\ ret = <<>>

ToMatrixOp ==
    /\ Call("ToMatrix", <<>>, ToMatrix(transform))
    /\ UNCHANGED <<matrix, transform, camera>>

TransformPointOp ==
    /\ \E point \in PointInputs :
          Call("Transform.TransformPoint", <<point>>, TransformPoint(transform, point))
    /\ UNCHANGED <<matrix, transform, camera>>

TransformVectorOp ==
    /\ \E vector \in PointInputs :
          Call("Transform.TransformVector", <<vector>>, TransformVector(transform, vector))
    /\ UNCHANGED <<matrix, transform, camera>>

\* TestTransform_InverseTransformPoint: a point is transformed and taken back
InverseTransformPointOp ==
    /\ op = "Transform.TransformPoint"
    /\ op' = "InverseTransformPoint"
    /\ args' = <<ret>>
    /\ ret' = InverseTransformPoint(transform, ret)
    /\ UNCHANGED <<matrix, transform, camera>>

\* transform_test.go: TestTransform_Combine's child with a quarter turn, a
\* child that is moved, turned and mirrored, and the identity
ChildInputs ==
    {NewTransformWithValues(Vector2(One, Zero), Angle(90, 0), Vector2(Rat(1, 2), Rat(1, 2))),
     NewTransformWithValues(Vector2(One, Num(-1)), Angle(90, 1), Vector2(Num(2), Rat(-1, 2))),
     NewTransform}

CombineOp ==
    /\ \E other \in ChildInputs :
          Call("Combine", <<other>>, Combine(transform, other))
    /\ UNCHANGED <<matrix, transform, camera>>

NextTransform ==
    \/ ToMatrixOp
    \/ TransformPointOp
    \/ TransformVectorOp
    \/ InverseTransformPointOp
    \/ MatrixTransformVectorOp
    \/ CombineOp

SpecTransform == InitTransform /\ [][NextTransform]_vars

(***************************************************************************)
(* Transform: properties                                                   *)
(***************************************************************************)
\* p scaled componentwise by scale
Scaled(p, scale) == Vector2(FMul(scale.X, p.X), FMul(scale.Y, p.Y))

\* p turned counter-clockwise by angle
Rotated(p, angle) ==
    Vector2(FSub(FMul(Cos(angle), p.X), FMul(Sin(angle), p.Y)),
            FAdd(FMul(Sin(angle), p.X), FMul(Cos(angle), p.Y)))

\* the matrix of "scale, then rotate, then translate", written out
SRTMatrix(t) ==
    <<<<FMul(Cos(t.Rotation), t.Scale.X), FNeg(FMul(Sin(t.Rotation), t.Scale.Y)), t.Position.X>>,
      <<FMul(Sin(t.Rotation), t.Scale.X), FMul(Cos(t.Rotation), t.Scale.Y), t.Position.Y>>,
      <<Zero, Zero, One>>>>

\* C1: ToMatrix() is Translation * Rotation * Scale, so TransformPoint(p) is
\* p scaled componentwise, then rotated, then moved by Position; Position
\* (10,5), 90 degrees, Scale (2,2) maps (1,0) to (10,7).
C1_ToMatrixIsSRT ==
    /\ op = "ToMatrix" => ret = SRTMatrix(transform)
    /\ op = "Transform.TransformPoint" =>
          /\ ret = Vector2Add(Rotated(Scaled(args[1], transform.Scale),
                                      transform.Rotation),
                              transform.Position)
          /\ (/\ transform = NewTransformWithValues(Vector2(Num(10), Num(5)),
                                Angle(90, 0), Vector2(Num(2), Num(2)))
              /\ args[1] = Vector2(One, Zero)) => ret = Vector2(Num(10), Num(7))

\* a point off both axes has gone through a transform that is moved, turned
\* by theta and scaled unevenly
C1_Witness ==
    /\ op = "Transform.TransformPoint"
    /\ transform = NewTransformWithValues(Vector2(Num(1), Num(-1)), Angle(0, 1),
                                           Vector2(Num(2), Rat(-1, 2)))
    /\ args[1] = Vector2(Num(1), Num(1))
    /\ ret = Vector2(Rat(13, 5), Rat(3, 10))

\* the points of PointInputs that the transform maps to q
Preimages(t, q) == {p \in PointInputs : TransformPoint(t, p) = q}

\* C4 as stated: with Scale.X # 0 and Scale.Y # 0,
\* InverseTransformPoint(TransformPoint(p)) returns p and no error.
C4_Original ==
    (/\ op = "InverseTransformPoint"
     /\ transform.Scale.X # Zero
     /\ transform.Scale.Y # Zero) =>
        /\ ret.err = "nil"
        /\ \A p \in Preimages(transform, args[1]) : ret.val = p

\* C4, amended: with |Scale.X * Scale.Y| >= 1e-10,
\* InverseTransformPoint(TransformPoint(p)) returns p and no error.
C4_InverseRoundTrip ==
    (/\ op = "InverseTransformPoint"
     /\ ~FLt(FAbs(FMul(transform.Scale.X, transform.Scale.Y)), Epsilon)) =>
        /\ ret.err = "nil"
        /\ \A p \in Preimages(transform, args[1]) : ret.val = p

\* a point has been taken there and back by a transform that is moved, turned
\* by theta and scaled by 1e-6 on one axis
C4_Witness ==
    /\ op = "InverseTransformPoint"
    /\ transform = NewTransformWithValues(Vector2(Num(1), Num(-1)), Angle(90, -1),
                                           Vector2(Dec(1, -6), Num(2)))
    /\ ret.err = "nil"
    /\ ret.val = Vector2(Num(-1), Num(1))
    /\ args[1] # ret.val

\* m with its third column replaced
WithThirdColumn(m, col) ==
    <<<<m[1][1], m[1][2], col.X>>, <<m[2][1], m[2][2], col.Y>>,
      <<m[3][1], m[3][2], col.Z>>>>

\* C8: t.TransformVector(v) is rotate(Scale * v) whatever t.Position is, and
\* M.TransformVector(v) does not depend on M's third column.
C8_VectorsIgnoreTranslation ==
    /\ op = "Transform.TransformVector" =>
          /\ ret = Rotated(Scaled(args[1], transform.Scale), transform.Rotation)
          /\ \A position \in PositionInputs :
                TransformVector([transform EXCEPT !.Position = position], args[1]) = ret
    /\ op = "Matrix.TransformVector" =>
          /\ ret = Vector2(FAdd(FMul(matrix[1][1], args[1].X), FMul(matrix[1][2], args[1].Y)),
                           FAdd(FMul(matrix[2][1], args[1].X), FMul(matrix[2][2], args[1].Y)))
          /\ \A col \in Vector3Inputs :
                MatrixTransformVector(WithThirdColumn(matrix, col), args[1]) = ret

\* TestTransform_TransformVector: position (100,100), 90 degrees, scale (2,2)
\* takes the direction (1,0) to (0,2)
C8_Witness ==
    /\ op = "Transform.TransformVector"
    /\ transform = NewTransformWithValues(Vector2(Num(100), Num(100)), Angle(90, 0),
                                           Vector2(Num(2), Num(2)))
    /\ args[1] = Vector2(One, Zero)
    /\ ret = Vector2(Zero, Num(2))

(***************************************************************************)
(* SpecInverse: the inverse operations of Transform on a transform drawn   *)
(* from TransformInputs, each called on its own                            *)
(***************************************************************************)
\* transforms whose scales multiply to Epsilon, the least that is inverted
EdgeTransforms ==
    {NewTransformWithValues(position, rotation, Vector2(Dec(1, -5), Dec(1, -5))) :
        position \in PositionInputs, rotation \in AngleInputs}

InitInverse ==
    /\ transform \in TransformInputs \cup EdgeTransforms
    /\ matrix = ToMatrix(transform)
    /\ camera = NewCamera2D
    /\ op = "init"
    /\ args = <<>>
    /\ ret = <<>>

ToInverseMatrixOp ==
    /\ Call("ToInverseMatrix", <<>>, ToInverseMatrix(transform))
    /\ UNCHANGED <<matrix, transform, camera>>

InverseTransformVectorOp ==
    /\ \E vector \in PointInputs :
          Call("InverseTransformVector", <<vector>>,
               InverseTransformVector(transform, vector))
    /\ UNCHANGED <<matrix, transform, camera>>

InverseTransformPointAtOp ==
    /\ \E point \in PointInputs :
          Call("InverseTransformPoint", <<point>>,
               InverseTransformPoint(transform, point))
    /\ UNCHANGED <<matrix, transform, camera>>

NextInverse ==
    \/ ToInverseMatrixOp
    \/ InverseTransformVectorOp
    \/ InverseTransformPointAtOp

SpecInverse == InitInverse /\ [][NextInverse]_vars

\* C11: with Scale.X or Scale.Y zero, ToInverseMatrix, InverseTransformPoint
\* and InverseTransformVector each return the singular-matrix error of
\* Inverse and a zero value, never a computed point.
C11_CollapsedScaleErrors ==
    (transform.Scale.X = Zero \/ transform.Scale.Y = Zero) =>
        /\ op = "ToInverseMatrix" =>
              ret = [val |-> ZeroMatrix3x3, err |-> "cannot invert singular matrix"]
        /\ op \in {"InverseTransformPoint", "InverseTransformVector"} =>
              ret = [val |-> Vector2(Zero, Zero), err |-> "cannot invert singular matrix"]

\* a direction has been refused by a transform that is moved, turned by theta
\* and collapsed on its X axis
C11_Witness ==
    /\ op = "InverseTransformVector"
    /\ transform = NewTransformWithValues(Vector2(Num(1), Num(-1)), Angle(90, 1),
                                           Vector2(Zero, Num(2)))
    /\ args[1] = Vector2(Num(1), Num(1))
    /\ ret.err = "cannot invert singular matrix"

CombineStep ==
    op' = "Combine" =>
        LET parent == transform
            child == args'[1]
        IN  /\ ret'.Position = TransformPoint(parent, child.Position)
            /\ ret'.Rotation = AngleAdd(parent.Rotation, child.Rotation)
            /\ ret'.Scale = Vector2(FMul(parent.Scale.X, child.Scale.X),
                                    FMul(parent.Scale.Y, child.Scale.Y))
            /\ transform' = parent
            /\ child \in ChildInputs

\* C15: parent.Combine(child) has Position parent.TransformPoint(child.Position),
\* Rotation the sum of the two rotations and Scale the componentwise product of
\* the two scales, and leaves parent and child as they were.
C15_CombineComposes == [][CombineStep]_vars

\* a moved, turned and mirrored parent combined with a like child: two
\* quarter turns and two theta, scales (4, 1/4), and the child's Position
\* carried away from the sum of the two positions
C15_Witness ==
    /\ op = "Combine"
    /\ transform = NewTransformWithValues(Vector2(One, Num(-1)), Angle(90, 1),
                                           Vector2(Num(2), Rat(-1, 2)))
    /\ args[1] = transform
    /\ ret.Rotation = Angle(180, 2)
    /\ ret.Scale = Vector2(Num(4), Rat(1, 4))
    /\ ret.Position # Vector2(Num(2), Num(-2))

(***************************************************************************)
(* SpecView: the coordinate conversions of Camera2D on a camera drawn from *)
(* CameraInputs.                                                           *)
(***************************************************************************)
\* nothing, the least zoom with an invertible view (1e-5, its square is
\* Epsilon), one below it, and the zooms of camera_test.go
ViewZoomInputs == {Zero, Dec(1, -6), Dec(1, -5), Rat(3, 2), Num(2)}

\* camera_test.go: the 800 x 600 screen of every test; and a square screen
ScreenInputs == {<<Num(800), Num(600)>>, <<Num(2), Num(2)>>}

CameraInputs ==
    {NewCamera2D}
    \cup {NewCamera2DWithValues(position, zoom, rotation) :
            position \in PositionInputs \cup {Vector2(Num(5), Num(3))},
            zoom \in ViewZoomInputs, rotation \in AngleInputs}

InitView ==
    /\ camera \in CameraInputs
    /\ matrix = NewIdentityMatrix3x3
    /\ transform = NewTransform
    /\ op = "init"
    /\ args = <<>>
    /\ ret = <<>>

WorldToScreenOp ==
    /\ \E worldPos \in PointInputs, screen \in ScreenInputs :
          Call("WorldToScreen", <<worldPos, screen[1], screen[2]>>,
               WorldToScreen(camera, worldPos, screen[1], screen[2]))
    /\ UNCHANGED <<matrix, transform, camera>>

\* TestCamera2D_ScreenToWorld_WorldToScreen_RoundTrip: world -> screen -> world
ScreenToWorldOp ==
    /\ op = "WorldToScreen"
    /\ op' = "ScreenToWorld"
    /\ args' = <<ret, args[2], args[3]>>
    /\ ret' = ScreenToWorld(camera, ret, args[2], args[3])
    /\ UNCHANGED <<matrix, transform, camera>>

\* camera_test.go: the corners and the centre of the 800 x 600 screen, and a
\* pixel off the centre
ScreenPointInputs ==
    {Vector2(Zero, Zero), Vector2(Num(400), Num(300)), Vector2(Num(800), Num(600)),
     Vector2(Num(600), Num(150))}

\* TestCamera2D_ScreenToWorld: a pixel is taken to the world
ScreenToWorldAtOp ==
    /\ \E screenPos \in ScreenPointInputs, screen \in ScreenInputs :
          Call("ScreenToWorld", <<screenPos, screen[1], screen[2]>>,
               ScreenToWorld(camera, screenPos, screen[1], screen[2]))
    /\ UNCHANGED <<matrix, transform, camera>>

NextView ==
    \/ WorldToScreenOp
    \/ ScreenToWorldOp
    \/ ScreenToWorldAtOp

SpecView == InitView /\ [][NextView]_vars

\* the world points of PointInputs that the camera shows at screenPoint
ShownAt(c, screenPoint, screenWidth, screenHeight) ==
    {p \in PointInputs : WorldToScreen(c, p, screenWidth, screenHeight) = screenPoint}

\* C5 as stated: for any Zoom > 0, ScreenToWorld(WorldToScreen(p, 800, 600),
\* 800, 600) is p.
C5_Original ==
    (/\ op = "ScreenToWorld"
     /\ args[2] = Num(800) /\ args[3] = Num(600)
     /\ FGt(camera.Zoom, Zero)) =>
        \A p \in ShownAt(camera, args[1], args[2], args[3]) : ret = p

\* C5, amended: for any Zoom > 0 with Zoom * Zoom >= 1e-10,
\* ScreenToWorld(WorldToScreen(p, 800, 600), 800, 600) is p.
C5_CameraRoundTrip ==
    (/\ op = "ScreenToWorld"
     /\ args[2] = Num(800) /\ args[3] = Num(600)
     /\ FGt(camera.Zoom, Zero)
     /\ ~FLt(FMul(camera.Zoom, camera.Zoom), Epsilon)) =>
        \A p \in ShownAt(camera, args[1], args[2], args[3]) : ret = p

\* a world point has gone to the 800 x 600 screen and back through a camera
\* that is moved, turned and zoomed by 1e-5
C5_Witness ==
    /\ op = "ScreenToWorld"
    /\ args[2] = Num(800) /\ args[3] = Num(600)
    /\ camera = NewCamera2DWithValues(Vector2(Num(1), Num(-1)), Dec(1, -5), Angle(90, 1))
    /\ ret = Vector2(Num(-1), Zero)
    /\ args[1] # Vector2(Num(400), Num(300))

\* the normalized position of a pixel: [-1, 1] on both axes, Y upwards
NormalizedAt(screenPos, screenWidth, screenHeight) ==
    Vector2(FDiv(FSub(FMul(Num(2), screenPos.X), screenWidth), screenWidth),
            FDiv(FSub(screenHeight, FMul(Num(2), screenPos.Y)), screenHeight))

\* the world point whose view is viewPos: viewPos / Zoom, turned by Rotation,
\* moved by Position
Unviewed(c, viewPos) ==
    Vector2Add(Rotated(Vector2(FDiv(viewPos.X, c.Zoom), FDiv(viewPos.Y, c.Zoom)),
                       c.Rotation),
               c.Position)

\* C12: ScreenToWorld reports no error: with a singular view matrix
\* (|Zoom * Zoom| < 1e-10) it returns (0, 0) for every pixel and screen size,
\* and otherwise the inverse view applied to the normalized position.
C12_ScreenToWorldFallback ==
    op = "ScreenToWorld" =>
        ret = IF FLt(FAbs(FMul(camera.Zoom, camera.Zoom)), Epsilon)
              THEN Vector2(Zero, Zero)
              ELSE Unviewed(camera, NormalizedAt(args[1], args[2], args[3]))

\* a corner pixel has been taken to the origin by a camera that is moved,
\* turned and zoomed by 1e-6
C12_Witness ==
    /\ op = "ScreenToWorld"
    /\ camera = NewCamera2DWithValues(Vector2(Num(1), Num(-1)), Dec(1, -6), Angle(90, 1))
    /\ args[1] = Vector2(Num(800), Num(600))
    /\ args[2] = Num(2)
    /\ ret = Vector2(Zero, Zero)

(***************************************************************************)
(* SpecProjection: the matrices of Camera2D on a camera drawn from         *)
(* CameraInputs, and WorldToScreen beside them                             *)
(***************************************************************************)
GetViewMatrixOp ==
    /\ Call("GetViewMatrix", <<>>, GetViewMatrix(camera))
    /\ UNCHANGED <<matrix, transform, camera>>

GetProjectionMatrixOp ==
    /\ \E screen \in ScreenInputs :
          Call("GetProjectionMatrix", <<screen[1], screen[2]>>,
               GetProjectionMatrix(camera, screen[1], screen[2]))
    /\ UNCHANGED <<matrix, transform, camera>>

GetViewProjectionMatrixOp ==
    /\ \E screen \in ScreenInputs :
          Call("GetViewProjectionMatrix", <<screen[1], screen[2]>>,
               GetViewProjectionMatrix(camera, screen[1], screen[2]))
    /\ UNCHANGED <<matrix, transform, camera>>

NextProjection ==
    \/ GetViewMatrixOp
    \/ GetProjectionMatrixOp
    \/ GetViewProjectionMatrixOp
    \/ WorldToScreenOp

SpecProjection == InitView /\ [][NextProjection]_vars

\* TestCamera2D_GetViewMatrix: the world point (10, 8)
ViewedPoints == PointInputs \cup {Vector2(Num(10), Num(8))}

NormalizedPoints ==
    PointInputs \cup {Vector2(Zero, Zero), Vector2(Num(-1), One), Vector2(One, Num(-1)),
                      Vector2(Rat(1, 2), Rat(-1, 4))}

\* C17: GetProjectionMatrix(w, h) takes (x, y) to (x*w/2 + w/2, h/2 - y*h/2):
\* the origin to the centre of the screen, (-1, 1) to (0, 0) and (1, -1) to
\* (w, h), whatever the camera's Position, Zoom and Rotation.
C17_ProjectionIsViewport ==
    op = "GetProjectionMatrix" =>
        LET w == args[1]
            h == args[2]
            half == Rat(1, 2)
        IN  /\ \A p \in NormalizedPoints :
                  MatrixTransformPoint(ret, p) =
                      Vector2(FAdd(FMul(FMul(p.X, w), half), FMul(w, half)),
                              FSub(FMul(h, half), FMul(FMul(p.Y, h), half)))
            /\ MatrixTransformPoint(ret, Vector2(Zero, Zero)) = Vector2(FMul(w, half), FMul(h, half))
            /\ MatrixTransformPoint(ret, Vector2(Num(-1), One)) = Vector2(Zero, Zero)
            /\ MatrixTransformPoint(ret, Vector2(One, Num(-1))) = Vector2(w, h)
            /\ \A c \in CameraInputs : GetProjectionMatrix(c, w, h) = ret

\* the projection of a moved, turned and zoomed camera for the 800 x 600
\* screen takes the origin to (400, 300)
C17_Witness ==
    /\ op = "GetProjectionMatrix"
    /\ args = <<Num(800), Num(600)>>
    /\ camera = NewCamera2DWithValues(Vector2(One, Num(-1)), Rat(3, 2), Angle(90, 1))
    /\ MatrixTransformPoint(ret, Vector2(Zero, Zero)) = Vector2(Num(400), Num(300))

\* C18: WorldToScreen(p, w, h) is GetViewProjectionMatrix(w, h).TransformPoint(p),
\* and GetViewProjectionMatrix(w, h) is
\* GetProjectionMatrix(w, h).Multiply(GetViewMatrix()).
C18_WorldToScreenIsViewProjection ==
    /\ op = "WorldToScreen" =>
          ret = MatrixTransformPoint(GetViewProjectionMatrix(camera, args[2], args[3]),
                                     args[1])
    /\ op = "GetViewProjectionMatrix" =>
          ret = Multiply(GetProjectionMatrix(camera, args[1], args[2]),
                         GetViewMatrix(camera))

\* a world point off the origin has gone to the 800 x 600 screen through a
\* camera that is moved, turned and zoomed
C18_Witness ==
    /\ op = "WorldToScreen"
    /\ args = <<Vector2(One, One), Num(800), Num(600)>>
    /\ camera = NewCamera2DWithValues(Vector2(One, Num(-1)), Rat(3, 2), Angle(90, 1))
    /\ ret # Vector2(Num(400), Num(300))

(***************************************************************************)
(* SpecCamera: the mutators of Camera2D, called in any order on a camera   *)
(* whose Zoom is positive.                                                 *)
(***************************************************************************)
\* camera_test.go: SetZoom(-1), SetZoom(0), ZoomBy(1.5); and a zoom as small
\* as float64 has them
ZoomInputs == {Num(-1), Zero, Dec(1, -200), Rat(3, 2)}

\* where the camera is put, and what it looks at and follows
TargetInputs == {Vector2(Zero, Zero), Vector2(Num(1), Zero), Vector2(Zero, Num(-1))}

OffsetInputs == {Vector2(Num(1), Zero)}

RotationInputs == {Angle(0, 0), Angle(0, 1)}

DegreesInputs == {0, 90}

SpeedInputs == {Zero, One}

DeltaTimeInputs == {Rat(1, 2)}

\* NewCamera2D(), and the camera of TestCamera2D_ZoomBy
InitCamera ==
    /\ camera \in {NewCamera2D, NewCamera2DWithValues(Vector2(Zero, Zero), Num(2), Angle(0, 0))}
    /\ matrix = NewIdentityMatrix3x3
    /\ transform = NewTransform
    /\ op = "init"
    /\ args = <<>>
    /\ ret = <<>>

\* the cameras followed: Position within the coordinates, Rotation within a
\* MaxQuarter quarter turns and a turn by theta
Tracked(c) ==
    /\ FLeq(FAbs(c.Position.X), Num(MaxCoord))
    /\ FLeq(FAbs(c.Position.Y), Num(MaxCoord))
    /\ c.Rotation.deg \in {90 * q : q \in 0..MaxQuarter}
    /\ c.Rotation.k \in {0, 1}

\* a call of a method that returns nothing and leaves the camera as c
Mutate(name, arguments, c) ==
    /\ Tracked(c)
    /\ camera' = c
    /\ op' = name
    /\ args' = arguments
    /\ ret' = <<>>

SetPositionOp ==
    /\ \E position \in TargetInputs :
          Mutate("SetPosition", <<position>>, SetPosition(camera, position))
    /\ UNCHANGED <<matrix, transform>>

SetZoomOp ==
    /\ \E zoom \in ZoomInputs : Mutate("SetZoom", <<zoom>>, SetZoom(camera, zoom))
    /\ UNCHANGED <<matrix, transform>>

\* ZoomBy is followed from a zoom that the constructor or SetZoom has set
ZoomByOp ==
    /\ camera.Zoom \in ZoomInputs \cup {One, Num(2)}
    /\ \E factor \in ZoomInputs : Mutate("ZoomBy", <<factor>>, ZoomBy(camera, factor))
    /\ UNCHANGED <<matrix, transform>>

SetRotationOp ==
    /\ \E rotation \in RotationInputs :
          Mutate("SetRotation", <<rotation>>, SetRotation(camera, rotation))
    /\ UNCHANGED <<matrix, transform>>

SetRotationDegreesOp ==
    /\ \E degrees \in DegreesInputs :
          Mutate("SetRotationDegrees", <<degrees>>, SetRotationDegrees(camera, degrees))
    /\ UNCHANGED <<matrix, transform>>

MoveOp ==
    /\ \E offset \in OffsetInputs : Mutate("Move", <<offset>>, Move(camera, offset))
    /\ UNCHANGED <<matrix, transform>>

RotateOp ==
    /\ \E angle \in RotationInputs : Mutate("Rotate", <<angle>>, Rotate(camera, angle))
    /\ UNCHANGED <<matrix, transform>>

RotateDegreesOp ==
    /\ \E degrees \in DegreesInputs :
          Mutate("RotateDegrees", <<degrees>>, RotateDegrees(camera, degrees))
    /\ UNCHANGED <<matrix, transform>>

LookAtOp ==
    /\ \E target \in TargetInputs : Mutate("LookAt", <<target>>, LookAt(camera, target))
    /\ UNCHANGED <<matrix, transform>>

\* followed where the distance to the target is a number of the model
FollowTargetOp ==
    /\ \E target \in TargetInputs, followSpeed \in SpeedInputs,
          deltaTime \in DeltaTimeInputs :
          /\ HasSqrt(LengthSquared(Vector2Sub(target, camera.Position)))
          /\ Mutate("FollowTarget", <<target, followSpeed, deltaTime>>,
                    FollowTarget(camera, target, followSpeed, deltaTime))
    /\ UNCHANGED <<matrix, transform>>

NextCamera ==
    \/ SetPositionOp
    \/ SetZoomOp
    \/ ZoomByOp
    \/ SetRotationOp
    \/ SetRotationDegreesOp
    \/ MoveOp
    \/ RotateOp
    \/ RotateDegreesOp
    \/ LookAtOp
    \/ FollowTargetOp

SpecCamera == InitCamera /\ [][NextCamera]_vars

\* C6: from a camera whose Zoom is positive, Zoom > 0 holds after any
\* sequence of the mutators, whatever their arguments.
C6_ZoomStaysPositive == FGt(camera.Zoom, Zero)

\* one step of a zoom setter, from camera to camera'
ZoomStep ==
    /\ op' = "SetZoom" =>
          camera' = IF FLeq(args'[1], Zero) THEN camera
                    ELSE [camera EXCEPT !.Zoom = args'[1]]
    /\ op' = "ZoomBy" =>
          camera' = IF FLeq(args'[1], Zero) THEN camera
                    ELSE [camera EXCEPT !.Zoom = FMul(camera.Zoom, args'[1])]

\* C7: SetZoom(z) with z <= 0 and ZoomBy(f) with f <= 0 leave Zoom, Position
\* and Rotation as they were; SetZoom(z) with z > 0 sets Zoom to z and
\* ZoomBy(f) with f > 0 sets Zoom to Zoom * f.
C7_ZoomSetters == [][ZoomStep]_vars

\* TestCamera2D_SetZoom: SetZoom(0) has left the zoom 1.5 of a camera that is
\* moved and turned
C7_Witness ==
    /\ op = "SetZoom"
    /\ args[1] = Zero
    /\ camera.Zoom = Rat(3, 2)
    /\ camera.Position # Vector2(Zero, Zero)
    /\ camera.Rotation # Angle(0, 0)

(***************************************************************************)
(* SpecFollow: FollowTarget with every kind of argument, between the       *)
(* mutators that set Position, on a camera whose Zoom and Rotation stay.   *)
(***************************************************************************)
\* a target off the axes at distance 1 from the origin, the camera's own
\* Position (TestCamera2D_FollowTarget_AlreadyAtTarget) and a target under the
\* jitter threshold away from it (1e-9 < ZeroThreshold)
FollowInputs(c) ==
    TargetInputs \cup {Vector2(Rat(3, 5), Rat(-4, 5)), c.Position,
                       Vector2Add(c.Position, Vector2(Dec(1, -9), Zero))}

\* <<followSpeed, deltaTime>>: TestCamera2D_FollowTarget_InvalidParameters
\* (a negative speed, a negative time), a speed and a time of zero, and steps
\* of 1/2 and 1
StepInputs ==
    {<<Num(-1), Rat(1, 2)>>, <<One, Num(-1)>>, <<Zero, Rat(1, 2)>>, <<One, Zero>>,
     <<One, Rat(1, 2)>>, <<Num(2), Rat(1, 2)>>}

InitFollow ==
    /\ camera \in {NewCamera2D,
                   NewCamera2DWithValues(Vector2(Zero, Num(-1)), Num(2), Angle(90, 1))}
    /\ matrix = NewIdentityMatrix3x3
    /\ transform = NewTransform
    /\ op = "init"
    /\ args = <<>>
    /\ ret = <<>>

FollowOp ==
    /\ \E target \in FollowInputs(camera), step \in StepInputs :
          /\ HasSqrt(LengthSquared(Vector2Sub(target, camera.Position)))
          /\ Mutate("FollowTarget", <<target, step[1], step[2]>>,
                    FollowTarget(camera, target, step[1], step[2]))
    /\ UNCHANGED <<matrix, transform>>

NextFollow ==
    \/ FollowOp
    \/ SetPositionOp
    \/ MoveOp
    \/ LookAtOp

SpecFollow == InitFollow /\ [][NextFollow]_vars

Dot(v, other) == FAdd(FMul(v.X, other.X), FMul(v.Y, other.Y))

Cross(v, other) == FSub(FMul(v.X, other.Y), FMul(v.Y, other.X))

\* position lies on the straight segment from start to end
OnSegment(position, start, end) ==
    LET moved == Vector2Sub(position, start)
        whole == Vector2Sub(end, start)
    IN  /\ Cross(moved, whole) = Zero
        /\ FLeq(Zero, Dot(moved, whole))
        /\ FLeq(Dot(moved, moved), Dot(whole, whole))

\* one step of FollowTarget with followSpeed > 0 and deltaTime > 0
FollowStep ==
    (/\ op' = "FollowTarget"
     /\ FGt(args'[2], Zero)
     /\ FGt(args'[3], Zero)) =>
        LET moved == Vector2Sub(camera'.Position, camera.Position)
            whole == Vector2Sub(args'[1], camera.Position)
            maxDistance == FMul(args'[2], args'[3])
        IN  /\ OnSegment(camera'.Position, camera.Position, args'[1])
            /\ FLeq(Dot(moved, moved), FMul(maxDistance, maxDistance))
            /\ (/\ FLeq(Dot(whole, whole), FMul(maxDistance, maxDistance))
                /\ FGt(Dot(whole, whole), FMul(ZeroThreshold, ZeroThreshold))) =>
                   camera'.Position = args'[1]

\* C13: with followSpeed > 0 and deltaTime > 0 the new Position lies on the
\* segment from the old Position to the target, at most followSpeed *
\* deltaTime from the old one, and is the target whenever the target is no
\* farther than that (and above the jitter threshold).
C13_FollowNeverOvershoots == [][FollowStep]_vars

\* the camera has gone half of the way to a target off the axes
C13_Witness ==
    /\ op = "FollowTarget"
    /\ args = <<Vector2(Rat(3, 5), Rat(-4, 5)), One, Rat(1, 2)>>
    /\ camera.Position = Vector2(Rat(3, 10), Rat(-2, 5))

\* FollowTarget is refused: a speed or a time that is not positive, or a
\* target under the jitter threshold away
FollowRefused(c, target, followSpeed, deltaTime) ==
    LET whole == Vector2Sub(target, c.Position)
    IN  \/ FLeq(followSpeed, Zero)
        \/ FLeq(deltaTime, Zero)
        \/ FLt(Dot(whole, whole), FMul(ZeroThreshold, ZeroThreshold))

FollowFrame ==
    op' = "FollowTarget" =>
        /\ camera'.Zoom = camera.Zoom
        /\ camera'.Rotation = camera.Rotation
        /\ FollowRefused(camera, args'[1], args'[2], args'[3]) => camera' = camera

\* C14: FollowTarget leaves the whole camera as it was when followSpeed <= 0,
\* or deltaTime <= 0, or the target is under the jitter threshold (1e-8)
\* away, the camera's own Position included; it never changes Zoom or
\* Rotation.
C14_FollowTargetFrame == [][FollowFrame]_vars

\* a camera that is moved, zoomed and turned has stayed 1e-9 from its target
\* at full speed
C14_Witness ==
    /\ op = "FollowTarget"
    /\ args = <<Vector2(Dec(1, -9), Num(-1)), Num(2), Rat(1, 2)>>
    /\ camera = NewCamera2DWithValues(Vector2(Zero, Num(-1)), Num(2), Angle(90, 1))

(***************************************************************************)
(* SpecVector: Normalize, ToVector3 and ToVector2 on a vector drawn from   *)
(* Vector2Inputs and Vector3TestInputs.  args[1] is the vector the call is *)
(* made on.                                                                *)
(***************************************************************************)
\* 1, and lengths under the threshold of IsZero
LengthInputs == {One, Dec(1, -9), Dec(2, -9)}

\* vector_test.go: (3, 4) of TestVector2_Normalize, and the axes; each also
\* with a length near ZeroThreshold; and a vector whose squares underflow
Vector2Inputs ==
    PointInputs
    \cup {Vector2Scale(v, length) :
            v \in {Vector2(Num(3), Num(4)), Vector2(One, Zero), Vector2(Zero, Num(-1))},
            length \in LengthInputs}
    \cup {Vector2(Dec(1, -200), Zero)}

\* vector_test.go: (6, 8, 2) of TestVector3_ToVector2 and (3, 4, 0) of
\* TestVector3_ToVector2_ZeroZ; and (1, 2, 2), of length 3, also with a
\* length near ZeroThreshold
Vector3TestInputs ==
    Vector3Inputs
    \cup {Vector3(Num(6), Num(8), Num(2)), Vector3(Num(3), Num(4), Zero)}
    \cup {Vector3(length, FMul(Num(2), length), FMul(Num(-2), length)) :
            length \in LengthInputs}

IsVector3(v) == "Z" \in DOMAIN v

InitVector ==
    /\ matrix = NewIdentityMatrix3x3
    /\ transform = NewTransform
    /\ camera = NewCamera2D
    /\ op = "init"
    /\ args \in {<<v>> : v \in Vector2Inputs} \cup {<<v>> : v \in Vector3TestInputs}
    /\ ret = <<>>

\* v.Method(): the vector stays in args
Apply(name, result) ==
    /\ op = "init"
    /\ op' = name
    /\ ret' = result
    /\ UNCHANGED <<matrix, transform, camera, args>>

\* the lengths that math.Sqrt gives exactly are followed
NormalizeOp ==
    /\ ~IsVector3(args[1])
    /\ HasSqrt(LengthSquared(args[1]))
    /\ Apply("Vector2.Normalize", Normalize(args[1]))

Vector3NormalizeOp ==
    /\ IsVector3(args[1])
    /\ HasSqrt(Vector3LengthSquared(args[1]))
    /\ Apply("Vector3.Normalize", Vector3Normalize(args[1]))

ToVector3Op ==
    /\ ~IsVector3(args[1])
    /\ Apply("ToVector3", ToVector3(args[1]))

ToVector2Op ==
    /\ IsVector3(args[1])
    /\ Apply("ToVector2", ToVector2(args[1]))

\* v.ToVector3().ToVector2()
ToVector2BackOp ==
    /\ op = "ToVector3"
    /\ op' = "ToVector3.ToVector2"
    /\ ret' = ToVector2(ret)
    /\ UNCHANGED <<matrix, transform, camera, args>>

NextVector ==
    \/ NormalizeOp
    \/ Vector3NormalizeOp
    \/ ToVector3Op
    \/ ToVector2Op
    \/ ToVector2BackOp

SpecVector == InitVector /\ [][NextVector]_vars

\* the length of a Vector2 or a Vector3
LengthOf(v) == IF IsVector3(v) THEN Vector3Length(v) ELSE Length(v)

ZeroOf(v) == IF IsVector3(v) THEN Vector3(Zero, Zero, Zero) ELSE Vector2(Zero, Zero)

\* C19 as stated: v.Normalize() has length 1 unless v is the zero vector, and
\* then it is the zero vector.
C19_Original ==
    op \in {"Vector2.Normalize", "Vector3.Normalize"} =>
        IF args[1] = ZeroOf(args[1]) THEN ret = ZeroOf(args[1])
        ELSE LengthOf(ret) = One

\* C19, amended: v.Normalize() has length 1 unless the length of v is under
\* ZeroThreshold (1e-8), and then it is the zero vector, for a Vector2 and
\* for a Vector3.
C19_NormalizeIsUnitOrZero ==
    op \in {"Vector2.Normalize", "Vector3.Normalize"} =>
        IF FLt(LengthOf(args[1]), ZeroThreshold) THEN ret = ZeroOf(args[1])
        ELSE LengthOf(ret) = One

\* (3e-9, 4e-9), of length 5e-9, has been normalized to the zero vector
C19_Witness ==
    /\ op = "Vector2.Normalize"
    /\ args[1] = Vector2(Dec(3, -9), Dec(4, -9))
    /\ ret = Vector2(Zero, Zero)

\* C20: Vector3.ToVector2() is (x/z, y/z) for z != 0 and (x, y) for z == 0;
\* Vector2.ToVector3() sets z = 1; so v.ToVector3().ToVector2() is v.
C20_HomogeneousRoundTrip ==
    /\ op = "ToVector2" =>
          ret = IF args[1].Z # Zero
                THEN Vector2(FDiv(args[1].X, args[1].Z), FDiv(args[1].Y, args[1].Z))
                ELSE Vector2(args[1].X, args[1].Y)
    /\ op = "ToVector3" => ret = Vector3(args[1].X, args[1].Y, One)
    /\ op = "ToVector3.ToVector2" => ret = args[1]

\* (6, 8, 2) has been divided to (3, 4)
C20_Witness ==
    /\ op = "ToVector2"
    /\ args[1] = Vector3(Num(6), Num(8), Num(2))
    /\ ret = Vector2(Num(3), Num(4))

(***************************************************************************)
(* SpecBounds: GetBounds on a camera drawn from BoundsCameraInputs          *)
(***************************************************************************)
\* the cameras of CameraInputs, and cameras whose Zoom is negative
BoundsCameraInputs ==
    CameraInputs
    \cup {NewCamera2DWithValues(position, Num(-2), rotation) :
            position \in PositionInputs, rotation \in AngleInputs}

InitBounds ==
    /\ camera \in BoundsCameraInputs
    /\ matrix = NewIdentityMatrix3x3
    /\ transform = NewTransform
    /\ op = "init"
    /\ args = <<>>
    /\ ret = <<>>

GetBoundsOp ==
    /\ \E screen \in ScreenInputs :
          Call("GetBounds", <<screen[1], screen[2]>>,
               GetBounds(camera, screen[1], screen[2]))
    /\ UNCHANGED <<matrix, transform, camera>>

NextBounds == GetBoundsOp

SpecBounds == InitBounds /\ [][NextBounds]_vars

\* the four corners of the screen, taken to the world
WorldCorners(c, w, h) ==
    {ScreenToWorld(c, Vector2(x, y), w, h) : x \in {Zero, w}, y \in {Zero, h}}

\* C21: GetBounds(w, h) returns the componentwise minimum and maximum of
\* ScreenToWorld on the corners (0,0), (w,0), (0,h), (w,h): min <= max on
\* both axes, every corner is inside the box, and the default camera has min
\* strictly below (0,0) and max strictly above it.
C21_BoundsHoldCorners ==
    op = "GetBounds" =>
        LET corners == WorldCorners(camera, args[1], args[2])
            min == ret[1]
            max == ret[2]
        IN  /\ FLeq(min.X, max.X) /\ FLeq(min.Y, max.Y)
            /\ \A corner \in corners :
                  /\ FLeq(min.X, corner.X) /\ FLeq(corner.X, max.X)
                  /\ FLeq(min.Y, corner.Y) /\ FLeq(corner.Y, max.Y)
            /\ min.X \in {corner.X : corner \in corners}
            /\ min.Y \in {corner.Y : corner \in corners}
            /\ max.X \in {corner.X : corner \in corners}
            /\ max.Y \in {corner.Y : corner \in corners}
            /\ camera = NewCamera2D =>
                  /\ FLt(min.X, Zero) /\ FLt(min.Y, Zero)
                  /\ FGt(max.X, Zero) /\ FGt(max.Y, Zero)

\* the bounds of a moved, turned and zoomed camera on the 800 x 600 screen
C21_Witness ==
    /\ op = "GetBounds"
    /\ args = <<Num(800), Num(600)>>
    /\ camera = NewCamera2DWithValues(Vector2(One, Num(-1)), Rat(3, 2), Angle(90, 1))
    /\ ret[1] # ret[2]

\* the view matrix of c has no inverse
SingularView(c) == FLt(FAbs(FMul(c.Zoom, c.Zoom)), Epsilon)

\* Position moved by 1/Zoom on both axes, sign times
Around(c, sign) ==
    Vector2(FAdd(c.Position.X, FMul(sign, FDiv(One, c.Zoom))),
            FAdd(c.Position.Y, FMul(sign, FDiv(One, c.Zoom))))

ScreenCentre(w, h) == Vector2(FDiv(w, Num(2)), FDiv(h, Num(2)))

\* C27: the camera's Position is shown at the centre of the screen:
\* WorldToScreen(Position, w, h) is (w/2, h/2) whatever Zoom and Rotation are,
\* and with an invertible view ScreenToWorld((w/2, h/2), w, h) is Position;
\* the default camera takes (400, 300) of the 800 x 600 screen to the origin.
C27_PositionIsScreenCentre ==
    /\ (op = "WorldToScreen" /\ args[1] = camera.Position) =>
          ret = ScreenCentre(args[2], args[3])
    /\ (op = "ScreenToWorld" /\ args[1] = ScreenCentre(args[2], args[3])
                             /\ ~SingularView(camera)) =>
          ret = camera.Position

\* the centre of the 800 x 600 screen has gone to the Position of a camera
\* that is moved, turned and zoomed by 1e-5
C27_Witness ==
    /\ op = "ScreenToWorld"
    /\ args = <<Vector2(Num(400), Num(300)), Num(800), Num(600)>>
    /\ camera = NewCamera2DWithValues(Vector2(One, Num(-1)), Dec(1, -5), Angle(90, 1))
    /\ ret = Vector2(One, Num(-1))

(***************************************************************************)
(* SpecConverge: FollowTarget called again and again with the target, the  *)
(* speed and the time step of args, which stay as Init drew them           *)
(***************************************************************************)
\* camera_test.go, TestCamera2D_FollowTarget: speed and time step, for steps
\* of 1/2, of 1 and of 5
ConvergeSteps == {<<One, Rat(1, 2)>>, <<Num(2), Rat(1, 2)>>, <<Num(10), Rat(1, 2)>>}

ConvergeTargets == {Vector2(Zero, Zero), Vector2(Num(3), Num(4)), Vector2(Rat(3, 5), Rat(-4, 5))}

\* <<target, followSpeed, deltaTime>>: the targets by the steps; the camera's
\* own Position; a target 1e-9 away; and a target 3e-8 away with a step of
\* 2.5e-8, which ends 5e-9 short of it
ConvergeCases(position) ==
    {<<target, step[1], step[2]>> : target \in ConvergeTargets, step \in ConvergeSteps}
    \cup {<<position, One, Rat(1, 2)>>,
          <<Vector2Add(position, Vector2(Dec(1, -9), Zero)), One, Rat(1, 2)>>,
          <<Vector2Add(position, Vector2(Dec(3, -8), Zero)), Dec(25, -9), One>>}

InitConverge ==
    /\ camera \in {NewCamera2DWithValues(position, Num(2), Angle(90, 1)) :
                      position \in PointInputs}
    /\ matrix = NewIdentityMatrix3x3
    /\ transform = NewTransform
    /\ op = "init"
    /\ args \in {case \in ConvergeCases(camera.Position) :
                    HasSqrt(LengthSquared(Vector2Sub(case[1], camera.Position)))}
    /\ ret = <<>>

FollowAgainOp ==
    /\ op' = "FollowTarget"
    /\ camera' = FollowTarget(camera, args[1], args[2], args[3])
    /\ UNCHANGED <<matrix, transform, args, ret>>

NextConverge == FollowAgainOp

\* a call would change the state: ENABLED <<FollowAgainOp>>_vars, written out
CallMoves ==
    op # "FollowTarget" \/ FollowTarget(camera, args[1], args[2], args[3]) # camera

\* the loop of the caller goes on, so a call that would change the state is
\* made: weak fairness of FollowAgainOp, which is
\* []<>(~ENABLED <<FollowAgainOp>>_vars) \/ []<><<FollowAgainOp>>_vars
FollowAgainIsFair == []<>(~CallMoves) \/ []<><<FollowAgainOp>>_vars

SpecConverge == InitConverge /\ [][NextConverge]_vars /\ FollowAgainIsFair

\* the distance from the camera to the target of args
TargetDistance(c) == Length(Vector2Sub(args[1], c.Position))

\* a call as the claim has it: a step nearer, or onto the target
ConvergeStepOriginal ==
    LET distance == TargetDistance(camera)
        maxDistance == FMul(args[2], args[3])
    IN  IF FGt(distance, maxDistance)
        THEN TargetDistance(camera') = FSub(distance, maxDistance)
        ELSE camera'.Position = args[1]

\* C26 as stated: with the target, speed > 0 and dt > 0 fixed, every call of
\* FollowTarget brings the camera nearer by speed*dt until the distance is at
\* most speed*dt, then puts it on the target, where it stays.
C26_Original ==
    /\ [][ConvergeStepOriginal]_vars
    /\ <>[](camera.Position = args[1])

\* a call by the three cases of the distance
ConvergeStep ==
    LET distance == TargetDistance(camera)
        maxDistance == FMul(args[2], args[3])
    IN  /\ camera'.Zoom = camera.Zoom /\ camera'.Rotation = camera.Rotation
        /\ IF FLeq(distance, ZeroThreshold) THEN camera' = camera
           ELSE IF FGt(distance, maxDistance)
                THEN TargetDistance(camera') = FSub(distance, maxDistance)
                ELSE camera'.Position = args[1]

\* C26, amended: with the target, speed > 0 and dt > 0 fixed, a call of
\* FollowTarget more than 1e-8 and more than speed*dt away brings the camera
\* nearer by speed*dt, a call more than 1e-8 and at most speed*dt away puts it
\* on the target, and a call at most 1e-8 away leaves it where it is; so the
\* camera comes to rest on the target or within 1e-8 of it and stays there.
C26_FollowConverges ==
    /\ [][ConvergeStep]_vars
    /\ <>[](FLeq(TargetDistance(camera), ZeroThreshold))

\* the camera has come from (0, 0) onto the target (3, 4) in steps of 1/2
C26_Witness ==
    /\ op = "FollowTarget"
    /\ args = <<Vector2(Num(3), Num(4)), One, Rat(1, 2)>>
    /\ camera.Position = Vector2(Num(3), Num(4))

\* C29: whether a Transform is inverted depends on its scale alone: the
\* determinant of ToMatrix() is Scale.X * Scale.Y for every Position and
\* Rotation, so ToInverseMatrix, InverseTransformPoint and
\* InverseTransformVector return an error exactly when
\* |Scale.X * Scale.Y| < 1e-10.
C29_InverseDependsOnScale ==
    op \in {"ToInverseMatrix", "InverseTransformPoint", "InverseTransformVector"} =>
        LET product == FMul(transform.Scale.X, transform.Scale.Y)
        IN  /\ Determinant(ToMatrix(transform)) = product
            /\ (ret.err # "nil") <=> FLt(FAbs(product), Epsilon)
            /\ ret.err \in {"nil", "cannot invert singular matrix"}

\* a transform that is moved, turned by a quarter and theta, and scaled by
\* 1e-5 on both axes has been inverted
C29_Witness ==
    /\ op = "ToInverseMatrix"
    /\ transform = NewTransformWithValues(Vector2(One, Num(-1)), Angle(90, 1),
                                           Vector2(Dec(1, -5), Dec(1, -5)))
    /\ ret.err = "nil"

----------------------------------------------------------------------------
\* Transform's mutators, Reset and the direction vectors

\* a coordinate beyond which a unit is lost in a sum
Far == Dec(1, 18)

\* offsets of Translate: one in range and two that outweigh every Position
TranslateInputs ==
    {Vector2(One, Num(-1)), Vector2(Far, Zero), Vector2(FNeg(Far), Zero)}

\* angles of Rotate: quarter turns and theta, both ways
RotateInputs == {Angle(90, 0), Angle(-90, 0), Angle(0, 1), Angle(0, -1)}

RotateDegreesInputs == {90, -90}

\* factors of ScaleBy and ScaleByUniform: a non-uniform one and a mirror
ScaleByInputs == {Vector2(Num(2), Rat(1, 2))}

ScaleByUniformInputs == {Num(-1)}

\* the transforms the mutators are followed through
TrackedCoord(x) == FLeq(FAbs(x), Num(MaxCoord)) \/ FAbs(x) = Far

TrackedScale(s) == FLeq(Rat(1, 2), FAbs(s)) /\ FLeq(FAbs(s), Num(3))

TrackedTransform(t) ==
    /\ TrackedCoord(t.Position.X)
    /\ FLeq(FAbs(t.Position.Y), Num(MaxCoord))
    /\ t.Rotation.deg \in {90 * q : q \in 0..MaxQuarter}
    /\ t.Rotation.k \in {0, 1}
    /\ TrackedScale(t.Scale.X)
    /\ TrackedScale(t.Scale.Y)

InitMutate ==
    /\ transform = NewTransform
    /\ matrix = NewIdentityMatrix3x3
    /\ camera = NewCamera2D
    /\ op = "init"
    /\ args = <<>>
    /\ ret = <<>>

MutateTransform(name, arguments, t) ==
    /\ TrackedTransform(t)
    /\ transform' = t
    /\ op' = name
    /\ args' = arguments
    /\ ret' = <<>>

QueryTransform(name, result) ==
    /\ op' = name
    /\ args' = <<>>
    /\ ret' = result

TransformSetPositionOp ==
    /\ \E position \in {Vector2(Num(-1), One)} :
          MutateTransform("SetPosition", <<position>>,
                          TransformSetPosition(transform, position))
    /\ UNCHANGED <<matrix, camera>>

TransformSetRotationOp ==
    /\ \E rotation \in {Angle(0, 1)} :
          MutateTransform("SetRotation", <<rotation>>,
                          TransformSetRotation(transform, rotation))
    /\ UNCHANGED <<matrix, camera>>

TransformSetRotationDegreesOp ==
    /\ \E degrees \in {90} :
          MutateTransform("SetRotationDegrees", <<degrees>>,
                          TransformSetRotationDegrees(transform, degrees))
    /\ UNCHANGED <<matrix, camera>>

SetScaleOp ==
    /\ \E scale \in {Vector2(Num(2), Num(3))} :
          MutateTransform("SetScale", <<scale>>, SetScale(transform, scale))
    /\ UNCHANGED <<matrix, camera>>

SetUniformScaleOp ==
    /\ \E scale \in {Rat(1, 2)} :
          MutateTransform("SetUniformScale", <<scale>>, SetUniformScale(transform, scale))
    /\ UNCHANGED <<matrix, camera>>

TranslateOp ==
    /\ \E offset \in TranslateInputs :
          MutateTransform("Translate", <<offset>>, Translate(transform, offset))
    /\ UNCHANGED <<matrix, camera>>

TransformRotateOp ==
    /\ \E angle \in RotateInputs :
          MutateTransform("Rotate", <<angle>>, TransformRotate(transform, angle))
    /\ UNCHANGED <<matrix, camera>>

TransformRotateDegreesOp ==
    /\ \E degrees \in RotateDegreesInputs :
          MutateTransform("RotateDegrees", <<degrees>>,
                          TransformRotateDegrees(transform, degrees))
    /\ UNCHANGED <<matrix, camera>>

ScaleByOp ==
    /\ \E scale \in ScaleByInputs :
          MutateTransform("ScaleBy", <<scale>>, ScaleBy(transform, scale))
    /\ UNCHANGED <<matrix, camera>>

ScaleByUniformOp ==
    /\ \E scale \in ScaleByUniformInputs :
          MutateTransform("ScaleByUniform", <<scale>>, ScaleByUniform(transform, scale))
    /\ UNCHANGED <<matrix, camera>>

ResetOp ==
    /\ op \notin {"Reset", "ResetAgain"}
    /\ MutateTransform("Reset", <<>>, Reset(transform))
    /\ UNCHANGED <<matrix, camera>>

\* Reset called on a transform that has just been reset
ResetAgainOp ==
    /\ op \in {"Reset", "ResetAgain"}
    /\ MutateTransform("ResetAgain", <<>>, Reset(transform))
    /\ UNCHANGED <<matrix, camera>>

ForwardOp ==
    /\ QueryTransform("Forward", Forward(transform))
    /\ UNCHANGED <<matrix, transform, camera>>

RightOp ==
    /\ QueryTransform("Right", Right(transform))
    /\ UNCHANGED <<matrix, transform, camera>>

UpOp ==
    /\ QueryTransform("Up", Up(transform))
    /\ UNCHANGED <<matrix, transform, camera>>

NextMutate ==
    \/ TransformSetPositionOp
    \/ TransformSetRotationOp
    \/ TransformSetRotationDegreesOp
    \/ SetScaleOp
    \/ SetUniformScaleOp
    \/ TranslateOp
    \/ TransformRotateOp
    \/ TransformRotateDegreesOp
    \/ ScaleByOp
    \/ ScaleByUniformOp
    \/ ResetOp
    \/ ResetAgainOp
    \/ ForwardOp
    \/ RightOp
    \/ UpOp

SpecMutate == InitMutate /\ [][NextMutate]_vars

\* what each mutator writes, and the fields it leaves alone
MutatorFrame ==
    /\ op' = "Translate" =>
          /\ transform'.Position = Vector2Add(transform.Position, args'[1])
          /\ transform'.Rotation = transform.Rotation
          /\ transform'.Scale = transform.Scale
    /\ op' = "Rotate" =>
          /\ transform'.Rotation = AngleAdd(transform.Rotation, args'[1])
          /\ transform'.Position = transform.Position
          /\ transform'.Scale = transform.Scale
    /\ op' = "RotateDegrees" =>
          /\ transform'.Rotation = AngleAdd(transform.Rotation, DegreesToRad(args'[1]))
          /\ transform'.Position = transform.Position
          /\ transform'.Scale = transform.Scale
    /\ op' = "ScaleBy" =>
          /\ transform'.Scale = Vector2(FMul(transform.Scale.X, args'[1].X),
                                        FMul(transform.Scale.Y, args'[1].Y))
          /\ transform'.Position = transform.Position
          /\ transform'.Rotation = transform.Rotation
    /\ op' = "ScaleByUniform" =>
          /\ transform'.Scale = Vector2Scale(transform.Scale, args'[1])
          /\ transform'.Position = transform.Position
          /\ transform'.Rotation = transform.Rotation

\* Translate(a) then Translate(b) against Translate(a + b)
TranslateLaw(t, a, b) == Translate(Translate(t, a), b) = Translate(t, Vector2Add(a, b))

\* Rotate(a) then Rotate(-a) against the Rotation before
RotateLaw(t, a) == TransformRotate(TransformRotate(t, a), AngleNeg(a)).Rotation = t.Rotation

\* neither term of x + y is lost
SumExact(x, y) == x.n = 0 \/ y.n = 0 \/ (~Absorbs(x, y) /\ ~Absorbs(y, x))

\* every sum of the two ways of translating is exact
TranslateExact(t, a, b) ==
    /\ SumExact(t.Position.X, a.X) /\ SumExact(FAdd(t.Position.X, a.X), b.X)
    /\ SumExact(a.X, b.X) /\ SumExact(t.Position.X, FAdd(a.X, b.X))
    /\ SumExact(t.Position.Y, a.Y) /\ SumExact(FAdd(t.Position.Y, a.Y), b.Y)
    /\ SumExact(a.Y, b.Y) /\ SumExact(t.Position.Y, FAdd(a.Y, b.Y))

MutatorStepOriginal ==
    /\ MutatorFrame
    /\ op' = "Translate" =>
          \A b \in TranslateInputs : TranslateLaw(transform, args'[1], b)
    /\ op' = "Rotate" => RotateLaw(transform, args'[1])

\* C22 as stated: each mutator changes only its own field, Translate(a) then
\* Translate(b) has the effect of Translate(a + b) for all offsets, and
\* Rotate(a) then Rotate(-a) restores Rotation.
C22_Original == [][MutatorStepOriginal]_vars

MutatorStep ==
    /\ MutatorFrame
    /\ op' = "Translate" =>
          \A b \in TranslateInputs :
             TranslateExact(transform, args'[1], b) => TranslateLaw(transform, args'[1], b)
    /\ op' = "Rotate" => RotateLaw(transform, args'[1])

\* C22: Translate adds its offset to Position and changes nothing else,
\* Rotate and RotateDegrees add their angle to Rotation and change nothing
\* else, ScaleBy and ScaleByUniform multiply Scale and change nothing else;
\* Translate(a) then Translate(b) has the effect of Translate(a + b) when no
\* sum loses a term, and Rotate(a) then Rotate(-a) restores Rotation.
C22_MutatorsKeepOtherFields == [][MutatorStep]_vars

\* a scaled and turned transform translated by (1, -1) from the origin, where
\* translating by (1, -1) again is exact
C22_Witness ==
    /\ op = "Translate"
    /\ args[1] = Vector2(One, Num(-1))
    /\ transform.Position = Vector2(One, Num(-1))
    /\ transform.Scale = Vector2(Num(2), Rat(1, 2))
    /\ transform.Rotation = Angle(90, 1)
    /\ TranslateExact(Translate(transform, Vector2(Num(-1), One)), args[1], args[1])

ResetStep ==
    op' \in {"Reset", "ResetAgain"} =>
       /\ transform'.Position = Vector2(Zero, Zero)
       /\ transform'.Rotation = Angle(0, 0)
       /\ transform'.Scale = Vector2(One, One)
       /\ transform' = NewTransform
       /\ ToMatrix(transform') = NewIdentityMatrix3x3
       /\ Reset(transform') = transform'
       /\ op' = "ResetAgain" => transform' = transform

\* C23: after any sequence of mutators, Reset leaves Position (0, 0),
\* Rotation 0 and Scale (1, 1), the transform of NewTransform, whose matrix is
\* the identity; Reset on a transform just reset changes nothing.
C23_ResetRestoresIdentity == [][ResetStep]_vars

\* Reset has been called twice in a row
C23_Witness ==
    /\ op = "ResetAgain"
    /\ transform = NewTransform
    /\ ToMatrix(transform) = NewIdentityMatrix3x3

\* the squared length of a direction vector is 1
IsUnit(v) == LengthSquared(v) = One

DirectionStep ==
    /\ op' = "Forward" =>
          /\ ret' = Vector2(Cos(transform'.Rotation), Sin(transform'.Rotation))
          /\ IsUnit(ret')
          /\ Dot(ret', Right(transform')) = Zero
          /\ FGt(transform'.Scale.X, Zero) =>
                TransformVector(transform', Vector2(One, Zero))
                   = Vector2Scale(ret', transform'.Scale.X)
    /\ op' = "Right" =>
          /\ ret' = Vector2(FNeg(Sin(transform'.Rotation)), Cos(transform'.Rotation))
          /\ IsUnit(ret')
          /\ Dot(Forward(transform'), ret') = Zero
    /\ op' = "Up" => IsUnit(ret')
    /\ transform'.Rotation = transform.Rotation =>
          /\ Forward(transform') = Forward(transform)
          /\ Right(transform') = Right(transform)
          /\ Up(transform') = Up(transform)

\* C24: Forward, Right and Up are unit vectors that depend only on Rotation:
\* Forward is (cos r, sin r), Right is (-sin r, cos r), the two are
\* perpendicular, a change of Position or Scale changes none of them, and for
\* a positive X scale TransformVector((1, 0)) is Forward times that scale.
C24_DirectionsFollowRotation == [][DirectionStep]_vars

\* Forward of a transform that is moved, turned by a quarter turn and theta
\* and scaled by (2, 1/2): (-4/5, 3/5)
C24_Witness ==
    /\ op = "Forward"
    /\ transform.Rotation = Angle(90, 1)
    /\ transform.Scale = Vector2(Num(2), Rat(1, 2))
    /\ transform.Position = Vector2(One, Num(-1))
    /\ ret = Vector2(Rat(-4, 5), Rat(3, 5))

UpStep ==
    /\ op' = "Up" =>
          /\ ret' = Vector2(FNeg(Right(transform').X), FNeg(Right(transform').Y))
          /\ Dot(ret', Forward(transform')) = Zero
          /\ transform'.Rotation = Angle(0, 0) => ret' = Vector2(Zero, Num(-1))
    /\ op' = "Right" =>
          /\ Up(transform') = Vector2(FNeg(ret'.X), FNeg(ret'.Y))
          /\ transform'.Rotation = Angle(0, 0) => ret' = Vector2(Zero, One)

C25_CombineIsComposition ==
    op = "Combine" =>
       /\ \A p \in PointInputs :
             TransformPoint(ret, p) = TransformPoint(transform, TransformPoint(args[1], p))
       /\ ToMatrix(ret) = Multiply(ToMatrix(transform), ToMatrix(args[1]))

====
